---- MODULE Spec2Model ----
(***************************************************************************)
(* Model of the GitHub webhook ingestion pipeline:                         *)
(*   src/src/lambdas/webhook-handler/index.ts        (handler, lines 1-304)*)
(*   src/src/lambdas/webhook-handler/measures/index.ts (getMeasure and its *)
(*   helpers, lines 380-1117).                                             *)
(* Both files hold several historical variants of the same module one      *)
(* after the other; the model follows the variant the stack deploys (the   *)
(* S3/SNS handler and the getMeasure that knows push, pull_request,        *)
(* pull_request_review, issues and workflow_run).                          *)
(***************************************************************************)
EXTENDS Integers, Sequences, FiniteSets, TLC

(***************************************************************************)
(* JSON values as JavaScript sees them.  Every value is a tagged record so *)
(* that values of different JavaScript types can be compared.              *)
(***************************************************************************)
Undef == [t |-> "undefined"]
Null == [t |-> "null"]
Str(s) == [t |-> "string", s |-> s]
Num(n) == [t |-> "number", n |-> n]
Bool(b) == [t |-> "boolean", b |-> b]
Arr(a) == [t |-> "array", a |-> a]
Obj(o) == [t |-> "object", o |-> o]

\* x === 'text'
IsStr(x, text) == x.t = "string" /\ x.s = text

\* x === undefined || x === null : a property access on x raises TypeError
Nullish(x) == x.t \in {"undefined", "null"}

\* JavaScript truthiness, as used by  if (x)  and  a || b
Truthy(x) ==
  CASE x.t = "undefined" -> FALSE
    [] x.t = "null" -> FALSE
    [] x.t = "string" -> x.s # ""
    [] x.t = "number" -> x.n # 0
    [] x.t = "boolean" -> x.b
    [] OTHER -> TRUE

\* x.k for a non-nullish x (a missing key and a key of a primitive are undefined)
Get(x, k) ==
  IF x.t = "object" /\ k \in DOMAIN x.o THEN x.o[k] ELSE Undef

\* 'k' in x  for an object x
HasKey(x, k) == x.t = "object" /\ k \in DOMAIN x.o

\* x[i] with a 0-based index
At(x, i) ==
  IF x.t = "array" /\ i + 1 \in DOMAIN x.a THEN x.a[i + 1] ELSE Undef

\* x.length
Length(x) ==
  CASE x.t = "array" -> Num(Len(x.a))
    [] x.t = "string" -> Num(Len(x.s))
    [] OTHER -> Undef

Digit == <<"0", "1", "2", "3", "4", "5", "6", "7", "8", "9">>

\* decimal rendering of a natural number
RECURSIVE Dec(_)
Dec(n) == IF n < 10 THEN Digit[n + 1] ELSE Dec(n \div 10) \o Digit[(n % 10) + 1]

\* String(x)
RECURSIVE JSString(_)
RECURSIVE JoinFrom(_, _)
JoinFrom(a, i) ==
  IF i > Len(a) THEN ""
  ELSE (IF i > 1 THEN "," ELSE "")
       \o (IF Nullish(a[i]) THEN "" ELSE JSString(a[i]))
       \o JoinFrom(a, i + 1)
JSString(x) ==
  CASE x.t = "undefined" -> "undefined"
    [] x.t = "null" -> "null"
    [] x.t = "string" -> x.s
    [] x.t = "number" -> IF x.n < 0 THEN "-" \o Dec(0 - x.n) ELSE Dec(x.n)
    [] x.t = "boolean" -> IF x.b THEN "true" ELSE "false"
    [] x.t = "array" -> JoinFrom(x.a, 1)
    [] OTHER -> "[object Object]"

\* the ISO-8601 texts the model's payloads carry and their epoch milliseconds
IsoMillis == [iso \in {"1970-01-01T00:00:01Z"} |-> 1000]

\* String(new Date(isoTimestamp).getTime())
formatTimestamp(isoTimestamp) ==
  CASE isoTimestamp.t = "string" /\ isoTimestamp.s \in DOMAIN IsoMillis
         -> Dec(IsoMillis[isoTimestamp.s])
    [] isoTimestamp.t = "number" /\ isoTimestamp.n >= 0 -> Dec(isoTimestamp.n)
    [] isoTimestamp.t = "null" -> "0"
    [] OTHER -> "NaN"

\* the cutoff of the array flattening:  Math.min(length, 5)
FlattenLimit == 5

\* Math.min(n, 5) as a loop bound (NaN, from an undefined length, runs no iteration)
LoopBound(len) ==
  IF len.t = "number" THEN (IF len.n < FlattenLimit THEN len.n ELSE FlattenLimit) ELSE 0

\* one element of measureValues
MV(name, type, value) == [Name |-> name, Type |-> type, Value |-> value]

\* the concatenation of a sequence of sequences
RECURSIVE Flatten(_)
Flatten(ss) == IF ss = <<>> THEN <<>> ELSE Head(ss) \o Flatten(Tail(ss))

\* the entries a loop  for (i = 0; i < n; i++) push(F(i))  appends
Loop(n, F(_)) == Flatten([k \in 1 .. n |-> F(k - 1)])

\* some index below n for which P holds
AnyIndex(n, P(_)) == \E i \in 0 .. (n - 1) : P(i)

(***************************************************************************)
(* measures/index.ts.  A call either returns or raises TypeError (a        *)
(* property read on undefined or null); a helper that appends to           *)
(* measureValues yields [thrown, mv], getMeasure yields [thrown, measure]. *)
(***************************************************************************)
Raised == [thrown |-> TRUE, mv |-> <<>>]
Appended(mv) == [thrown |-> FALSE, mv |-> mv]

\* the  if (payload.pull_request.assignees)  block: the length, then id and login
\* of the first five elements, skipping falsy ones
pr_assignees_entries(pr, prefix) ==
  LET assignees == Get(pr, "assignees")
      num_assignees == Length(assignees)
      one(i) ==
        IF ~Truthy(At(assignees, i)) THEN <<>>
        ELSE << MV(prefix \o "pr_assignees_" \o Dec(i) \o "_id", "BIGINT",
                   Str(JSString(Get(At(assignees, i), "id")))),
                MV(prefix \o "pr_assignees_" \o Dec(i) \o "_login", "BIGINT",
                   Str(JSString(Get(At(assignees, i), "login")))) >>
  IN  IF ~Truthy(assignees) THEN <<>>
      ELSE << MV(prefix \o "pr_assignees_length", "BIGINT", Str(JSString(num_assignees))) >>
           \o Loop(LoopBound(num_assignees), one)

\* the loop over payload.pull_request.labels: the names of the first five labels
pr_labels_entries(pr, prefix) ==
  LET labels == Get(pr, "labels")
      one(i) == << MV(prefix \o "pr_labels_" \o Dec(i) \o "_name", "VARCHAR",
                      Get(At(labels, i), "name")) >>
  IN  Loop(LoopBound(Length(labels)), one)

\* the block as the earlier revision of the function had it (lines 299-305):
\* if (merged !== null), which lets an undefined merged through as "undefined"
pr_merged_entries_null_only(pr, prefix) ==
  LET merged == Get(pr, "merged")
  IN  IF merged.t # "null"
      THEN << MV(prefix \o "pr_merged", "BOOLEAN", Str(JSString(merged))) >>
      ELSE <<>>

\* the  if (merged !== undefined && merged !== null)  block
pr_merged_entries(pr, prefix) ==
  LET merged == Get(pr, "merged")
  IN  IF merged.t # "undefined" /\ merged.t # "null"
      THEN << MV(prefix \o "pr_merged", "BOOLEAN", Str(JSString(merged))) >>
      ELSE <<>>

\* the  if (commits)  and  if (review_comments)  blocks
pr_count_entries(pr, prefix) ==
  (IF Truthy(Get(pr, "commits"))
   THEN << MV(prefix \o "pr_commits", "BIGINT", Str(JSString(Get(pr, "commits")))) >>
   ELSE <<>>)
  \o
  (IF Truthy(Get(pr, "review_comments"))
   THEN << MV(prefix \o "pr_rv_comments", "BIGINT",
              Str(JSString(Get(pr, "review_comments")))) >>
   ELSE <<>>)

add_pull_request_object_infomation(measureValues, payload, prefix) ==
  LET pr == Get(payload, "pull_request")
      base == Get(pr, "base")
      labels == Get(pr, "labels")
  IN  IF \/ Nullish(pr)
         \/ Nullish(base)
         \/ Nullish(labels)
         \/ AnyIndex(LoopBound(Length(labels)), LAMBDA i : Nullish(At(labels, i)))
      THEN Raised
      ELSE Appended(
        measureValues
        \o << MV(prefix \o "pr_author_association", "VARCHAR", Get(pr, "author_association")),
              MV(prefix \o "pr_base_label", "VARCHAR", Get(base, "label")),
              MV(prefix \o "pr_base_ref", "VARCHAR", Get(base, "ref")),
              MV(prefix \o "pr_base_sha", "VARCHAR", Get(base, "sha")),
              MV(prefix \o "pr_created_at", "TIMESTAMP",
                 Str(formatTimestamp(Get(pr, "created_at")))),
              MV(prefix \o "pr_draft", "BOOLEAN", Str(JSString(Get(pr, "draft")))),
              MV(prefix \o "pr_id", "BIGINT", Str(JSString(Get(pr, "id")))),
              MV(prefix \o "pr_locked", "BOOLEAN", Str(JSString(Get(pr, "locked")))),
              MV(prefix \o "pr_number", "BIGINT", Str(JSString(Get(pr, "number")))),
              MV(prefix \o "pr_state", "VARCHAR", Get(pr, "state")),
              MV(prefix \o "pr_update_at", "TIMESTAMP",
                 Str(formatTimestamp(Get(pr, "updated_at")))) >>
        \o pr_count_entries(pr, prefix)
        \o (IF Truthy(Get(pr, "assignee"))
            THEN << MV(prefix \o "pr_assignee_id", "BIGINT",
                       Str(JSString(Get(Get(pr, "assignee"), "id")))),
                    MV(prefix \o "pr_assignee_login", "BIGINT",
                       Str(JSString(Get(Get(pr, "assignee"), "login")))) >>
            ELSE <<>>)
        \o pr_assignees_entries(pr, prefix)
        \o (IF Truthy(Get(pr, "auto_merge"))
            THEN << MV(prefix \o "pr_auto_merge_merge_method", "BOOLEAN",
                       Str(JSString(Get(Get(pr, "auto_merge"), "merge_method")))) >>
            ELSE <<>>)
        \o (IF Truthy(Get(base, "user"))
            THEN << MV(prefix \o "pr_base_user_id", "BIGINT",
                       Str(JSString(Get(Get(base, "user"), "id")))),
                    MV(prefix \o "pr_base_user_login", "VARCHAR",
                       Get(Get(base, "user"), "login")) >>
            ELSE <<>>)
        \o (IF Truthy(Get(pr, "closed_at"))
            THEN << MV(prefix \o "pr_closed_at", "TIMESTAMP",
                       Str(formatTimestamp(Get(pr, "closed_at")))) >>
            ELSE <<>>)
        \o pr_labels_entries(pr, prefix)
        \o pr_merged_entries(pr, prefix)
        \o (IF Truthy(Get(pr, "merged_at"))
            THEN << MV(prefix \o "pr_merged_at", "TIMESTAMP",
                       Str(formatTimestamp(Get(pr, "merged_at")))) >>
            ELSE <<>>)
        \o (IF Truthy(Get(pr, "user"))
            THEN << MV(prefix \o "pr_user_id", "BIGINT",
                       Str(JSString(Get(Get(pr, "user"), "id")))),
                    MV(prefix \o "pr_user_login", "VARCHAR",
                       Get(Get(pr, "user"), "login")) >>
            ELSE <<>>))

\* the issue.assignees block: the length, then login and id of the first five
issue_assignees_entries(issue, prefix) ==
  LET assignees == Get(issue, "assignees")
      asignee_length == Length(assignees)
      one(i) == << MV(prefix \o "issue_assignees_" \o Dec(i) \o "_login", "VARCHAR",
                      Get(At(assignees, i), "login")),
                   MV(prefix \o "issue_assignees_" \o Dec(i) \o "_id", "BIGINT",
                      Str(JSString(Get(At(assignees, i), "id")))) >>
  IN  << MV(prefix \o "issue_assignees_length", "BIGINT", Str(JSString(asignee_length))) >>
      \o Loop(LoopBound(asignee_length), one)

\* the issue.labels block: the length, then name, id and default of the first five
issue_labels_entries(issue, prefix) ==
  LET labels == Get(issue, "labels")
      labels_length == Length(labels)
      one(i) == << MV(prefix \o "issue_labels_" \o Dec(i) \o "_name", "VARCHAR",
                      Get(At(labels, i), "name")),
                   MV(prefix \o "issue_labels_" \o Dec(i) \o "_id", "BIGINT",
                      Str(JSString(Get(At(labels, i), "id")))),
                   MV(prefix \o "issue_labels_" \o Dec(i) \o "_default", "BOOLEAN",
                      Str(JSString(Get(At(labels, i), "default")))) >>
  IN  << MV(prefix \o "issue_labels_length", "BIGINT", Str(JSString(labels_length))) >>
      \o Loop(LoopBound(labels_length), one)

add_issue_object_infomation(measureValues, payload, prefix) ==
  LET issue == Get(payload, "issue")
      assignees == Get(issue, "assignees")
      labels == Get(issue, "labels")
  IN  IF \/ Nullish(issue)
         \/ (Truthy(Get(issue, "asignee")) /\ Nullish(Get(issue, "assignee")))
         \/ Nullish(assignees)
         \/ AnyIndex(LoopBound(Length(assignees)), LAMBDA i : Nullish(At(assignees, i)))
         \/ Nullish(labels)
         \/ AnyIndex(LoopBound(Length(labels)), LAMBDA i : Nullish(At(labels, i)))
      THEN Raised
      ELSE Appended(
        measureValues
        \o (IF Truthy(Get(issue, "asignee"))
            THEN << MV(prefix \o "issue_assignee_login", "VARCHAR",
                       Get(Get(issue, "assignee"), "login")),
                    MV(prefix \o "issue_assignee_id", "BIGINT",
                       Str(JSString(Get(Get(issue, "assignee"), "id")))) >>
            ELSE <<>>)
        \o issue_assignees_entries(issue, prefix)
        \o << MV(prefix \o "issue_author_association", "VARCHAR",
                 Get(issue, "author_association")) >>
        \o (IF Truthy(Get(issue, "closed_at"))
            THEN << MV(prefix \o "issue_closed_at", "TIMESTAMP",
                       Str(formatTimestamp(Get(issue, "closed_at")))) >>
            ELSE <<>>)
        \o << MV(prefix \o "issue_comments", "BIGINT", Str(JSString(Get(issue, "comments")))) >>
        \o (IF Truthy(Get(issue, "created_at"))
            THEN << MV(prefix \o "issue_created_at", "TIMESTAMP",
                       Str(formatTimestamp(Get(issue, "created_at")))) >>
            ELSE <<>>)
        \o (IF Get(issue, "draft").t # "undefined" /\ Get(issue, "draft").t # "null"
            THEN << MV(prefix \o "issue_draft", "BOOLEAN",
                       Str(JSString(Get(issue, "draft")))) >>
            ELSE <<>>)
        \o << MV(prefix \o "issue_id", "BIGINT", Str(JSString(Get(issue, "id")))) >>
        \o issue_labels_entries(issue, prefix)
        \o << MV(prefix \o "issue_locked", "BOOLEAN", Str(JSString(Get(issue, "locked")))),
              MV(prefix \o "issue_number", "BIGINT", Str(JSString(Get(issue, "number")))),
              MV(prefix \o "issue_state", "VARCHAR", Get(issue, "state")) >>
        \o (IF Truthy(Get(issue, "updated_at"))
            THEN << MV(prefix \o "issue_updated_at", "TIMESTAMP",
                       Str(formatTimestamp(Get(issue, "updated_at")))) >>
            ELSE <<>>)
        \o (IF Truthy(Get(issue, "user"))
            THEN << MV(prefix \o "issue_user_id", "BIGINT",
                       Str(JSString(Get(Get(issue, "user"), "id")))),
                    MV(prefix \o "issue_user_login", "VARCHAR",
                       Get(Get(issue, "user"), "login")) >>
            ELSE <<>>))

\* what getMeasure hands back: a thrown TypeError, or the returned measure
\* (Multi_single: a case that returns the number of its entries as a Single measure)
Throws == [thrown |-> TRUE]
Returns(measure) == [thrown |-> FALSE, measure |-> measure]
Multi_single(name, r) ==
  IF r.thrown THEN Throws
  ELSE Returns([measureName |-> name, measureValueType |-> "BIGINT",
                measureValue |-> Dec(Len(r.mv))])
Multi(name, r) ==
  IF r.thrown THEN Throws
  ELSE Returns([measureName |-> name, measureValueType |-> "MULTI", measureValues |-> r.mv])

\* a fallback that counts nothing: the same measure with the value "0"
dummyMeasure_zero ==
  [measureName |-> "dummyMeasure", measureValueType |-> "BIGINT", measureValue |-> "0"]

\* the value after  return  at the end of getMeasure
dummyMeasure ==
  [measureName |-> "dummyMeasure", measureValueType |-> "BIGINT", measureValue |-> "1"]

\* the block with a test on definedness in place of truthiness:
\* if (payload.base_ref !== undefined && payload.base_ref !== null)
push_base_ref_entries_defined(payload) ==
  IF ~Nullish(Get(payload, "base_ref"))
  THEN << MV("push_base_ref", "VARCHAR", Get(payload, "base_ref")) >>
  ELSE <<>>

\* the  if (payload.base_ref)  block of case "push"
push_base_ref_entries(payload) ==
  IF Truthy(Get(payload, "base_ref"))
  THEN << MV("push_base_ref", "VARCHAR", Get(payload, "base_ref")) >>
  ELSE <<>>

\* case "push"
push_measure(payload) ==
  IF Nullish(payload) \/ Nullish(Get(payload, "commits")) \/ Nullish(Get(payload, "pusher"))
  THEN Raised
  ELSE Appended(
    << MV("push_after", "VARCHAR", Get(payload, "after")),
       MV("push_before", "VARCHAR", Get(payload, "before")),
       MV("push_commits_length", "BIGINT",
          Str(JSString(Length(Get(payload, "commits"))))),
       MV("push_created", "BOOLEAN", Str(JSString(Get(payload, "created")))),
       MV("push_deleted", "BOOLEAN", Str(JSString(Get(payload, "deleted")))),
       MV("push_forced", "BOOLEAN", Str(JSString(Get(payload, "forced")))),
       MV("push_pusher_name", "VARCHAR", Get(Get(payload, "pusher"), "name")),
       MV("push_ref", "VARCHAR", Get(payload, "ref")) >>
    \o push_base_ref_entries(payload))

\* case "pull_request": the result of measureValues.concat(...) is dropped
pull_request_measure(payload) ==
  IF Nullish(payload) THEN Raised
  ELSE add_pull_request_object_infomation(
         << MV("pr_number", "BIGINT", Str(JSString(Get(payload, "number")))),
            MV("pr_action", "VARCHAR", Get(payload, "action")) >>,
         payload, "pr_")

\* case "pull_request_review"
pull_request_review_measure(payload) ==
  LET review == Get(payload, "review")
  IN  IF Nullish(payload) \/ Nullish(review) THEN Raised
      ELSE add_pull_request_object_infomation(
             << MV("pr_rv_action", "VARCHAR", Get(payload, "action")),
                MV("pr_rv_review_author_association", "VARCHAR",
                   Get(review, "author_association")),
                MV("pr_rv_review_commit_id", "VARCHAR", Get(review, "commit_id")),
                MV("pr_rv_review_id", "VARCHAR", Str(JSString(Get(review, "id")))),
                MV("pr_rv_review_state", "VARCHAR", Get(review, "state")),
                MV("pr_rv_review_submitted_at", "TIMESTAMP",
                   Str(formatTimestamp(Get(review, "submitted_at")))) >>
             \o (IF Truthy(Get(review, "user"))
                 THEN << MV("pr_rv_review_user_id", "BIGINT",
                            Str(JSString(Get(Get(review, "user"), "id")))),
                         MV("pr_rv_review_user_login", "VARCHAR",
                            Get(Get(review, "user"), "login")) >>
                 ELSE <<>>),
             payload, "pr_rv_")

\* case "issues"
issues_measure(payload) ==
  IF Nullish(payload) THEN Raised
  ELSE add_issue_object_infomation(
         << MV("issues_action", "VARCHAR", Get(payload, "action")) >>
         \o (IF Truthy(Get(payload, "assignee"))
             THEN << MV("issues_assignee_login", "VARCHAR",
                        Get(Get(payload, "assignee"), "login")),
                     MV("issues_assignee_id", "BIGINT",
                        Str(JSString(Get(Get(payload, "assignee"), "id")))) >>
             ELSE <<>>),
         payload, "issues_")

\* case "workflow_run"
workflow_run_measure(payload) ==
  LET wf == Get(payload, "workflow")
      run == Get(payload, "workflow_run")
      opt(cond, entries) == IF Truthy(cond) THEN entries ELSE <<>>
  IN  IF Nullish(payload) \/ Nullish(wf) \/ Nullish(run) \/ Nullish(Get(run, "actor"))
      THEN Raised
      ELSE Appended(
        << MV("wf_run_action", "VARCHAR", Get(payload, "action")),
           MV("wf_run_wf_created_at", "TIMESTAMP", Str(formatTimestamp(Get(wf, "created_at")))),
           MV("wf_run_wf_id", "BIGINT", Str(JSString(Get(wf, "id")))),
           MV("wf_run_wf_name", "VARCHAR", Get(wf, "name")),
           MV("wf_run_wf_path", "VARCHAR", Get(wf, "path")),
           MV("wf_run_wf_state", "VARCHAR", Get(wf, "state")),
           MV("wf_run_wf_updated_at", "TIMESTAMP", Str(formatTimestamp(Get(wf, "updated_at")))),
           MV("wf_run_wf_run_actor_id", "BIGINT", Str(JSString(Get(Get(run, "actor"), "id")))),
           MV("wf_run_wf_run_actor_login", "VARCHAR", Get(Get(run, "actor"), "login")),
           MV("wf_run_wf_run_check_suite_id", "BIGINT",
              Str(JSString(Get(run, "check_suite_id")))),
           MV("wf_run_wf_run_check_suite_node_id", "VARCHAR",
              Get(run, "check_suite_node_id")) >>
        \o opt(Get(run, "conclusion"),
               << MV("wf_run_wf_run_conclusion", "VARCHAR", Get(run, "conclusion")) >>)
        \o << MV("wf_run_wf_run_created_at", "TIMESTAMP",
                 Str(formatTimestamp(Get(run, "created_at")))),
              MV("wf_run_wf_run_event", "VARCHAR", Get(run, "event")) >>
        \o opt(Get(run, "head_branch"),
               << MV("wf_run_wf_run_head_branch", "VARCHAR", Get(run, "head_branch")) >>)
        \o << MV("wf_run_wf_run_id", "BIGINT", Str(JSString(Get(run, "id")))) >>
        \o opt(Get(run, "name"),
               << MV("wf_run_wf_run_name", "VARCHAR", Get(run, "name")) >>)
        \o << MV("wf_run_wf_run_node_id", "VARCHAR", Get(run, "node_id")),
              MV("wf_run_wf_run_path", "VARCHAR", Str(JSString(Get(run, "path")))),
              MV("wf_run_wf_run_attempt", "BIGINT", Str(JSString(Get(run, "run_attempt")))),
              MV("wf_run_wf_run_number", "BIGINT", Str(JSString(Get(run, "run_number")))),
              MV("wf_run_wf_run_started_at", "TIMESTAMP",
                 Str(formatTimestamp(Get(run, "run_started_at")))) >>
        \o opt(Get(run, "triggering_actor"),
               << MV("wf_run_wf_run_triggering_actor_id", "BIGINT",
                     Str(JSString(Get(Get(run, "triggering_actor"), "id")))),
                  MV("wf_run_wf_run_triggering_actor_login", "VARCHAR",
                     Get(Get(run, "triggering_actor"), "login")) >>)
        \o << MV("wf_run_wf_run_updated_at", "TIMESTAMP",
                 Str(formatTimestamp(Get(run, "updated_at")))),
              MV("wf_run_wf_run_wf_id", "BIGINT", Str(JSString(Get(run, "workflow_id")))) >>)

\* the event types the switch of getMeasure has a case for
KnownEventTypes == {"push", "pull_request", "pull_request_review", "issues", "workflow_run"}

\* getMeasure(event_type, payload); event_type is a JSON value (the header may be missing)
getMeasure(event_type, payload) ==
  CASE IsStr(event_type, "push") -> Multi("push", push_measure(payload))
    [] IsStr(event_type, "pull_request") -> Multi("pull_request", pull_request_measure(payload))
    [] IsStr(event_type, "pull_request_review")
         -> Multi("pull_request", pull_request_review_measure(payload))
    [] IsStr(event_type, "issues") -> Multi("issue", issues_measure(payload))
    [] IsStr(event_type, "workflow_run") -> Multi("workflow_run", workflow_run_measure(payload))
    [] OTHER -> Returns(dummyMeasure)

(***************************************************************************)
(* Building JSON objects: a key whose value is undefined is not a key.     *)
(***************************************************************************)
EmptyObject == [k \in {} |-> Undef]
Field(k, v) == IF v.t = "undefined" THEN EmptyObject ELSE (k :> v)

\* JSON.stringify(record): keys holding undefined are dropped
JSONStringify(record) ==
  [k \in {j \in DOMAIN record : record[j].t # "undefined"} |-> record[k]]

(***************************************************************************)
(* The requests the model sends to the webhook handler.                    *)
(***************************************************************************)
\* how many invocations one process serves in the model
MaxInvocations == 2

\* the value stored under /github/metrics/secret-token
SecretToken == "s3cr3t"

Repository == Obj([id |-> Num(7), name |-> Str("repo"), full_name |-> Str("org/repo")])
Organization == Obj([login |-> Str("org"), id |-> Num(3)])
Sender == Obj([login |-> Str("alice"), id |-> Num(9)])
PullRequestObject ==
  Obj([base |-> Obj([ref |-> Str("main")]), labels |-> Arr(<< Obj([name |-> Str("bug")]) >>),
       merged |-> Bool(FALSE), number |-> Num(12)])

\* parsed bodies: text is the request body, json what JSON.parse(text) returns
\* (parses is FALSE when JSON.parse raises SyntaxError)
Bodies ==
  { [text |-> "{oops", parses |-> FALSE, json |-> Undef],
    [text |-> "null", parses |-> TRUE, json |-> Null],
    [text |-> "{}", parses |-> TRUE, json |-> Obj(EmptyObject)],
    [text |-> "push", parses |-> TRUE,
     json |-> Obj([after |-> Str("abc123"), before |-> Str("000"),
                   commits |-> Arr(<< Obj(EmptyObject), Obj(EmptyObject) >>),
                   created |-> Bool(FALSE), deleted |-> Bool(FALSE), forced |-> Bool(FALSE),
                   pusher |-> Obj([name |-> Str("alice")]), ref |-> Str("refs/heads/main"),
                   repository |-> Repository, sender |-> Sender])],
    [text |-> "pr", parses |-> TRUE,
     json |-> Obj([action |-> Str("opened"), number |-> Num(12),
                   organization |-> Organization, repository |-> Repository,
                   sender |-> Sender, pull_request |-> PullRequestObject])],
    [text |-> "pr-without-object", parses |-> TRUE,
     json |-> Obj([action |-> Str("opened"), number |-> Num(12),
                   organization |-> Organization, repository |-> Repository])],
    [text |-> "pr-without-org", parses |-> TRUE,
     json |-> Obj([action |-> Str("opened"), number |-> Num(12),
                   repository |-> Repository, pull_request |-> PullRequestObject])],
    [text |-> "pr-org-null", parses |-> TRUE,
     json |-> Obj([action |-> Str("opened"), number |-> Num(12), organization |-> Null,
                   repository |-> Repository, pull_request |-> PullRequestObject])] }

\* JSON.parse(text)
JSONParse(text) == CHOOSE b \in Bodies : b.text = text

\* the HMAC-SHA256 signature header GitHub computes for a body, kept symbolic
Sign(secret, text) == "sha256=hmac(" \o secret \o "," \o text \o ")"

\* X-Hub-Signature-256 as sent: absent, the right one, one made with another
\* secret, the one of a body that was altered after signing, and a malformed one
Signatures(text) ==
  {Undef, Str(Sign(SecretToken, text)), Str(Sign("guess", text)),
   Str(Sign(SecretToken, text \o " ")), Str("sha1=0000")}

EventTypeHeaders ==
  {Undef, Str("push"), Str("pull_request"), Str("issues"), Str("some_future_event")}

\* the headers object, with canonical or lower-case names
Headers(lower, githubEvent, signature) ==
  Obj(Field(IF lower THEN "x-github-event" ELSE "X-GitHub-Event", githubEvent)
      @@ Field(IF lower THEN "x-github-delivery" ELSE "X-GitHub-Delivery", Str("d-1"))
      @@ Field(IF lower THEN "x-hub-signature-256" ELSE "X-Hub-Signature-256", signature))

\* GITHUB_IP_RANGES, the IPv4 ones: <<address, prefix length>>
GITHUB_IP_RANGES ==
  << << <<192, 30, 252, 0>>, 22 >>,
     << <<185, 199, 108, 0>>, 22 >>,
     << <<140, 82, 112, 0>>, 20 >>,
     << <<143, 55, 64, 0>>, 20 >> >>

\* the upper and the lower 16 bits of a dotted address
HighHalf(ip) == ip[1] * 256 + ip[2]
LowHalf(ip) == ip[3] * 256 + ip[4]

\* a range test that compares the first 16 bits only, whatever the prefix length
ipRangeCheck_high16(ip, range) == HighHalf(ip) = HighHalf(range[1])

\* ipRangeCheck(sourceIp, range) for a dotted IPv4 address: the first
\* range[2] bits of both addresses agree
ipRangeCheck(ip, range) ==
  IF range[2] >= 16
  THEN /\ HighHalf(ip) = HighHalf(range[1])
       /\ LowHalf(ip) \div (2 ^ (32 - range[2])) = LowHalf(range[1]) \div (2 ^ (32 - range[2]))
  ELSE HighHalf(ip) \div (2 ^ (16 - range[2])) = HighHalf(range[1]) \div (2 ^ (16 - range[2]))

\* a source address as the request carries it: the text and its four numbers
Ip(a, b, c, d) ==
  [t |-> "string", s |-> Dec(a) \o "." \o Dec(b) \o "." \o Dec(c) \o "." \o Dec(d),
   ip |-> <<a, b, c, d>>]

\* requestContext source address: none, inside a GitHub range, just outside one, far away
SourceIps == {Undef, Ip(140, 82, 112, 1), Ip(140, 82, 128, 0), Ip(203, 0, 113, 9)}

\* base64 transport encoding of a body text, kept symbolic
Base64Encode(text) == "base64(" \o text \o ")"

\* Buffer.from(body, 'base64').toString('utf8')
Base64Decode(body) ==
  IF \E b \in Bodies : Base64Encode(b.text) = body
  THEN (CHOOSE b \in Bodies : Base64Encode(b.text) = body).text
  ELSE ""

\* the requests: for every body text, sent plain or base64-encoded, every signature case
EventsFor(text) ==
  { [sourceIp |-> ip, body |-> Str(IF b64 THEN Base64Encode(text) ELSE text),
     isBase64Encoded |-> b64, headers |-> Headers(lower, ev, sig)] :
      ip \in SourceIps, b64 \in BOOLEAN, lower \in BOOLEAN, ev \in EventTypeHeaders,
      sig \in Signatures(text) }

\* requests without a usable body
BodilessEvents ==
  { [sourceIp |-> ip, body |-> b, isBase64Encoded |-> b64,
     headers |-> Headers(FALSE, Str("push"), sig)] :
      ip \in SourceIps, b \in {Undef, Str("")}, b64 \in BOOLEAN,
      sig \in {Undef, Str(Sign(SecretToken, ""))} }

Events == BodilessEvents \cup UNION { EventsFor(b.text) : b \in Bodies }

(***************************************************************************)
(* webhook-handler/index.ts: one process serving invocations one at a time. *)
(***************************************************************************)
VARIABLES
  pc,              \* where the current invocation stands
  event,           \* the request of the current invocation
  body,            \* let body (after the optional base64 decoding)
  parsedBody,      \* let parsedBody
  measure,         \* what getMeasure handed back in sendToS3
  structuredRecord,\* the record sendToS3 builds
  response,        \* what the handler returned
  steps,           \* the pipeline steps of this invocation, in order
  snsPublished,    \* the messages this invocation published to the topic
  s3Objects,       \* the objects this invocation put into the raw bucket
  invocations,     \* invocations started by this process
  secretFetches    \* GetParameter calls issued by this process

\* the state of the daily consolidation and of the SNS handler
VARIABLES
  today,             \* the UTC day of the clock
  rawBucket,         \* RAW_DATA_BUCKET: object key -> body
  consolidatedBucket,\* CONSOLIDATED_DATA_BUCKET: object key -> lines of the body
  glueCatalog,       \* the github_metrics table and its partitions
  dateToConsolidate, \* const dateToConsolidate
  prefixIndex,       \* the position of for (const prefix of allPrefixes)
  objects,           \* const objects: the listed keys
  consolidatedData,  \* const consolidatedData
  deletedObjects,    \* the raw objects the current run has deleted
  putObjects,        \* the consolidated objects the current run has written
  rawWrites,         \* how many raw objects have been written so far
  recordIndex        \* the position of for (const record of records)

batchVars == << today, rawBucket, consolidatedBucket, glueCatalog, dateToConsolidate,
                prefixIndex, objects, consolidatedData, deletedObjects, putObjects,
                rawWrites, recordIndex >>

webhookVars == << event, body, parsedBody, measure, structuredRecord, snsPublished,
                 s3Objects, secretFetches >>

vars == << pc, event, body, parsedBody, measure, structuredRecord, response, steps,
           snsPublished, s3Objects, invocations, secretFetches, today, rawBucket,
           consolidatedBucket, glueCatalog, dateToConsolidate, prefixIndex, objects,
           consolidatedData, deletedObjects, putObjects, rawWrites, recordIndex >>

\* no object
EmptyBucket == [k \in {} |-> ""]

\* the buckets, the catalog and the loops before anything has run
BatchInit ==
  /\ today = 1
  /\ rawBucket = EmptyBucket
  /\ consolidatedBucket = EmptyBucket
  /\ glueCatalog = [table |-> FALSE, partitions |-> {}]
  /\ dateToConsolidate = 0
  /\ prefixIndex = 0
  /\ objects = <<>>
  /\ consolidatedData = <<>>
  /\ deletedObjects = {}
  /\ putObjects = {}
  /\ rawWrites = 0
  /\ recordIndex = 0

NoEvent == [sourceIp |-> Undef, body |-> Undef, isBase64Encoded |-> FALSE,
            headers |-> Obj(EmptyObject)]
NoResponse == [statusCode |-> 0, keys |-> {}]
NoMeasure == [thrown |-> FALSE, measure |-> [measureName |-> "", measureValueType |-> ""]]

\* a || b
Or(a, b) == IF Truthy(a) THEN a ELSE b

githubEvent == Or(Get(event.headers, "X-GitHub-Event"), Get(event.headers, "x-github-event"))
githubDelivery ==
  Or(Get(event.headers, "X-GitHub-Delivery"), Get(event.headers, "x-github-delivery"))
signature ==
  Or(Get(event.headers, "X-Hub-Signature-256"), Get(event.headers, "x-hub-signature-256"))

\* new Date().toISOString() during the n-th invocation
Timestamp(n) == "T" \o Dec(n)

\* webhooks.verify(bodyStr, signature): raises when the signature is missing,
\* otherwise resolves to whether the signature is the HMAC of the body
verify(secret, bodyStr, sig) ==
  IF ~Truthy(sig) \/ secret = "" \/ bodyStr = "" THEN "throws"
  ELSE IF sig.s = Sign(secret, bodyStr) THEN "true" ELSE "false"

\* what the handler answers when JSON.parse raises outside a try of its own (the
\* outer catch of lines 291-303), as in the earlier Firehose revision (line 401)
InvalidJsonBody_uncaught == [statusCode |-> 500, keys |-> {"message", "error"}]

\* an outer catch that rethrows: the invocation ends without a response
ProcessingError_rethrown == [statusCode |-> 0, keys |-> {}]

\* the return statements of the handler: the status and the keys of the JSON body
AccessDenied == [statusCode |-> 403, keys |-> {"message"}]
NoRequestBody == [statusCode |-> 400, keys |-> {"message"}]
InvalidSignature == [statusCode |-> 401, keys |-> {"message"}]
InvalidJsonBody == [statusCode |-> 400, keys |-> {"message", "error"}]
Processed == [statusCode |-> 200, keys |-> {"message", "eventType"}]
ProcessingError == [statusCode |-> 500, keys |-> {"message", "error"}]

\* return r
Respond(r) ==
  /\ response' = r
  /\ pc' = "done"

\* a body check that only looks for an undefined body: if (body === undefined)
BodyMissing_undefined(b) == b.t = "undefined"

\* a publish condition that looks for any event type: if (githubEvent)
IsPullRequestEvent_any(ev) == Truthy(ev)

\* if (!body)
BodyMissing(b) == ~Truthy(b)

\* if (githubEvent === 'pull_request')
IsPullRequestEvent(ev) == IsStr(ev, "pull_request")

\* the source address is known and in none of GITHUB_IP_RANGES
OriginRejected(sourceIp) ==
  /\ Truthy(sourceIp)
  /\ ~\E i \in DOMAIN GITHUB_IP_RANGES : ipRangeCheck(sourceIp.ip, GITHUB_IP_RANGES[i])

Init ==
  /\ pc = "idle"
  /\ event = NoEvent
  /\ body = Undef
  /\ parsedBody = Undef
  /\ measure = NoMeasure
  /\ structuredRecord = EmptyObject
  /\ response = NoResponse
  /\ steps = <<>>
  /\ snsPublished = <<>>
  /\ s3Objects = <<>>
  /\ invocations = 0
  /\ secretFetches = 0
  /\ BatchInit

\* API Gateway invokes the handler with a request
Invoke ==
  /\ pc = "idle"
  /\ invocations < MaxInvocations
  /\ \E e \in Events : event' = e
  /\ invocations' = invocations + 1
  /\ pc' = "start"
  /\ UNCHANGED << body, parsedBody, measure, structuredRecord, response, steps,
                  snsPublished, s3Objects, secretFetches >>
  /\ UNCHANGED batchVars

\* lines 142-195: the source address check, base64 decoding, the body check
HandlerStart ==
  /\ pc = "start"
  /\ LET decoded == IF event.isBase64Encoded /\ Truthy(event.body)
                    THEN Str(Base64Decode(event.body.s)) ELSE event.body
     IN  IF OriginRejected(event.sourceIp)
         THEN /\ Respond(AccessDenied)
              /\ UNCHANGED body
         ELSE /\ body' = decoded
              /\ IF BodyMissing(decoded)
                 THEN Respond(NoRequestBody)
                 ELSE pc' = "getSecret" /\ UNCHANGED response
  /\ UNCHANGED << event, parsedBody, measure, structuredRecord, steps, snsPublished,
                  s3Objects, invocations, secretFetches >>
  /\ UNCHANGED batchVars

\* lines 197-200 and 23-39: await getSecretFromParameterStore(...)
getSecretFromParameterStore ==
  /\ pc = "getSecret"
  /\ secretFetches' = secretFetches + 1
  /\ steps' = steps \o << "getSecret" >>
  /\ \E ok \in BOOLEAN :
       IF ok THEN pc' = "verify" /\ UNCHANGED response
       ELSE Respond(ProcessingError)
  /\ UNCHANGED << event, body, parsedBody, measure, structuredRecord, snsPublished,
                  s3Objects, invocations >>
  /\ UNCHANGED batchVars

\* lines 202-234: await webhooks.verify(...) in its try, then JSON.parse in its try
VerifyAndParse ==
  /\ pc = "verify"
  /\ IF verify(SecretToken, body.s, signature) = "throws"
     THEN /\ Respond(InvalidSignature)
          /\ steps' = steps \o << "verify" >>
          /\ UNCHANGED parsedBody
     ELSE IF ~JSONParse(body.s).parses
     THEN /\ Respond(InvalidJsonBody)
          /\ steps' = steps \o << "verify", "parse" >>
          /\ UNCHANGED parsedBody
     ELSE /\ parsedBody' = JSONParse(body.s).json
          /\ steps' = steps \o << "verify", "parse" >>
          /\ pc' = IF IsPullRequestEvent(githubEvent) THEN "publish" ELSE "send"
          /\ UNCHANGED response
  /\ UNCHANGED << event, body, measure, structuredRecord, snsPublished, s3Objects,
                  invocations, secretFetches >>
  /\ UNCHANGED batchVars

\* the condition of publishPullRequestEventToSnsTopic ('k' in x raises TypeError
\* when x is not an object): "throws", "publish" or "skip"
PublishGuard(data) ==
  IF data.t # "object" THEN "throws"
  ELSE IF ~(HasKey(data, "number") /\ HasKey(data, "action") /\ HasKey(data, "organization"))
  THEN "skip"
  ELSE IF Get(data, "organization").t # "object" THEN "throws"
  ELSE IF ~(HasKey(Get(data, "organization"), "login") /\ HasKey(data, "repository"))
  THEN "skip"
  ELSE IF Get(data, "repository").t # "object" THEN "throws"
  ELSE IF HasKey(Get(data, "repository"), "name") THEN "publish" ELSE "skip"

snsMessage(deriveryId, data) ==
  JSONStringify(
    [deliveryId |-> deriveryId, eventType |-> Str("pull_request"),
     action |-> Get(data, "action"), number |-> Get(data, "number"),
     organization |-> Get(Get(data, "organization"), "login"),
     repository |-> Get(Get(data, "repository"), "name")])

\* lines 236-239 and 106-135: await publishPullRequestEventToSnsTopic(...)
publishPullRequestEventToSnsTopic ==
  /\ pc = "publish"
  /\ CASE PublishGuard(parsedBody) = "throws" ->
            /\ Respond(ProcessingError)
            /\ UNCHANGED << steps, snsPublished >>
       [] PublishGuard(parsedBody) = "skip" ->
            /\ pc' = "send"
            /\ UNCHANGED << response, steps, snsPublished >>
       [] OTHER ->
            /\ steps' = steps \o << "publish" >>
            /\ \E ok \in BOOLEAN :
                 IF ok
                 THEN /\ snsPublished' =
                           Append(snsPublished, snsMessage(githubDelivery, parsedBody))
                      /\ pc' = "send"
                      /\ UNCHANGED response
                 ELSE /\ Respond(ProcessingError)
                      /\ UNCHANGED snsPublished
  /\ UNCHANGED << event, body, parsedBody, measure, structuredRecord, s3Objects,
                  invocations, secretFetches >>
  /\ UNCHANGED batchVars

\* lines 250-275: const structuredData = {...}
structuredData(parsed, ev, delivery) ==
  LET part(name, fields) ==
        IF Truthy(Get(parsed, name))
        THEN Obj([k \in fields |-> Get(Get(parsed, name), k)])
        ELSE Null
  IN  [action |-> Get(parsed, "action"),
       repository |-> part("repository", {"id", "name", "full_name"}),
       organization |-> part("organization", {"login", "id"}),
       sender |-> part("sender", {"login", "id"}),
       event_type |-> ev,
       delivery_id |-> delivery,
       payload |-> parsed]

\* an optional read that yields null in place of undefined: x ? x.k : null
OptGet_null(x, k) == IF Nullish(x) THEN Null ELSE Get(x, k)

\* x?.k
OptGet(x, k) == IF Nullish(x) THEN Undef ELSE Get(x, k)

\* lines 55-68: const structuredRecord = {...}
CommonDimensions(data, timestamp) ==
  [timestamp |-> Str(timestamp),
   event_type |-> data.event_type,
   delivery_id |-> data.delivery_id,
   repository_id |-> OptGet(data.repository, "id"),
   repository_name |-> OptGet(data.repository, "name"),
   repository_full_name |-> OptGet(data.repository, "full_name"),
   organization_id |-> OptGet(data.organization, "id"),
   organization_login |-> OptGet(data.organization, "login"),
   sender_id |-> OptGet(data.sender, "id"),
   sender_login |-> OptGet(data.sender, "login"),
   action |-> data.action]

\* record[name] = value
Put(record, name, value) == (name :> value) @@ record

\* measure.measureValues.forEach(mv => record[mv.Name] = mv.Value)
RECURSIVE PutAll(_, _)
PutAll(record, mvs) ==
  IF mvs = <<>> THEN record
  ELSE PutAll(Put(record, Head(mvs).Name, Head(mvs).Value), Tail(mvs))

\* lines 74-82: merge measure data into the record
MergeMeasure(record, m) ==
  IF "measureValue" \in DOMAIN m THEN Put(record, m.measureName, Str(m.measureValue))
  ELSE IF "measureValues" \in DOMAIN m THEN PutAll(record, m.measureValues)
  ELSE record

\* line 86: the object key
ObjectKey(data, timestamp) ==
  "event_type=" \o JSString(data.event_type) \o "/" \o timestamp \o "_"
  \o JSString(data.delivery_id) \o ".json"

\* lines 241-281 and 46-82: the statements from the parse to the await in sendToS3.
\* parsedBody.repository raises TypeError on a null body; getMeasure may raise.
sendToS3 ==
  /\ pc = "send"
  /\ IF Nullish(parsedBody)
     THEN /\ Respond(ProcessingError)
          /\ UNCHANGED << measure, structuredRecord, steps >>
     ELSE LET data == structuredData(parsedBody, githubEvent, githubDelivery)
              dims == CommonDimensions(data, Timestamp(invocations))
              m == getMeasure(data.event_type, data.payload)
          IN  /\ measure' = m
              /\ IF m.thrown
                 THEN /\ Respond(ProcessingError)
                      /\ steps' = steps \o << "extract" >>
                      /\ UNCHANGED structuredRecord
                 ELSE /\ structuredRecord' = MergeMeasure(dims, m.measure)
                      /\ steps' = steps \o << "extract", "assemble" >>
                      /\ pc' = "put"
                      /\ UNCHANGED response
  /\ UNCHANGED << event, body, parsedBody, snsPublished, s3Objects, invocations,
                  secretFetches >>
  /\ UNCHANGED batchVars

\* lines 88-103 and 283-290: await s3Client.send(new PutObjectCommand(...))
PutObject ==
  /\ pc = "put"
  /\ steps' = steps \o << "write" >>
  /\ \E ok \in BOOLEAN :
       IF ok
       THEN /\ s3Objects' =
                 Append(s3Objects,
                        [Key |-> ObjectKey([event_type |-> githubEvent,
                                            delivery_id |-> githubDelivery],
                                           Timestamp(invocations)),
                         Body |-> JSONStringify(structuredRecord)])
            /\ Respond(Processed)
       ELSE /\ Respond(ProcessingError)
            /\ UNCHANGED s3Objects
  /\ UNCHANGED << event, body, parsedBody, measure, structuredRecord, snsPublished,
                  invocations, secretFetches >>
  /\ UNCHANGED batchVars

\* the invocation is over: its locals are gone, the process waits for the next request
Return ==
  /\ pc = "done"
  /\ pc' = "idle"
  /\ event' = NoEvent
  /\ body' = Undef
  /\ parsedBody' = Undef
  /\ measure' = NoMeasure
  /\ structuredRecord' = EmptyObject
  /\ response' = NoResponse
  /\ steps' = <<>>
  /\ snsPublished' = <<>>
  /\ s3Objects' = <<>>
  /\ UNCHANGED << invocations, secretFetches >>
  /\ UNCHANGED batchVars

Next ==
  \/ Invoke
  \/ HandlerStart
  \/ getSecretFromParameterStore
  \/ VerifyAndParse
  \/ publishPullRequestEventToSnsTopic
  \/ sendToS3
  \/ PutObject
  \/ Return

Spec == Init /\ [][Next]_vars

(***************************************************************************)
(* getMeasure on its own: the inputs are drawn by the initial state and    *)
(* one step applies the function.                                          *)
(***************************************************************************)
\* the longest assignees / labels / commits array among the inputs
MaxArray == 6

User(i) == Obj([login |-> Str("user" \o Dec(i)), id |-> Num(100 + i)])
Label(i) == Obj([name |-> Str("label" \o Dec(i)), id |-> Num(200 + i), default |-> Bool(i = 0)])

\* arrays of every length up to MaxArray whose i-th element is Elem(i)
ArraysOf(Elem(_)) == { Arr([k \in 1 .. n |-> Elem(k - 1)]) : n \in 0 .. MaxArray }

\* a three-element array whose middle element is null
WithHole(Elem(_)) == Arr(<< Elem(0), Null, Elem(2) >>)

PushPayloads ==
  { Obj(Field("after", after) @@ Field("before", Str("000")) @@ Field("commits", commits)
        @@ Field("created", created) @@ Field("deleted", Bool(FALSE))
        @@ Field("forced", Bool(TRUE)) @@ Field("pusher", pusher)
        @@ Field("ref", Str("refs/heads/main")) @@ Field("base_ref", base_ref)) :
      after \in {Undef, Str("abc123")},
      commits \in {Undef, Null} \cup ArraysOf(LAMBDA i : Obj(EmptyObject)),
      created \in {Undef, Bool(FALSE), Bool(TRUE)},
      pusher \in {Undef, Obj([name |-> Str("alice")])},
      base_ref \in {Undef, Null, Str(""), Str("refs/heads/base")} }

\* pull_request objects: every combination of labels, assignees, merged and commits
PullRequestObjects ==
  { Obj(Field("base", Obj([label |-> Str("org:main"), ref |-> Str("main"),
                           sha |-> Str("f00"), user |-> User(1)]))
        @@ Field("labels", labels) @@ Field("assignees", assignees)
        @@ Field("merged", merged) @@ Field("commits", commits)
        @@ Field("number", Num(12)) @@ Field("state", Str("open"))
        @@ Field("created_at", Str("1970-01-01T00:00:01Z"))) :
      labels \in {Undef, WithHole(Label)} \cup ArraysOf(Label),
      assignees \in {Undef, Null, WithHole(User)} \cup ArraysOf(User),
      merged \in {Undef, Null, Bool(FALSE), Bool(TRUE)},
      commits \in {Undef, Num(0), Num(3)} }

\* pull_request objects that vary the remaining optional fields
PullRequestObjectsOther ==
  { Obj(Field("base", base) @@ Field("labels", Arr(<< Label(0) >>))
        @@ Field("assignee", assignee) @@ Field("auto_merge", auto_merge)
        @@ Field("review_comments", review_comments) @@ Field("draft", draft)
        @@ Field("merged_at", merged_at) @@ Field("user", assignee)) :
      base \in {Undef, Obj(EmptyObject)},
      assignee \in {Undef, Null, User(7)},
      auto_merge \in {Undef, Null, Obj([merge_method |-> Str("squash")])},
      review_comments \in {Undef, Num(0), Num(2)},
      draft \in {Undef, Bool(FALSE)},
      merged_at \in {Undef, Null, Str("1970-01-01T00:00:01Z")} }

PullRequestPayloads ==
  { Obj(Field("action", Str("opened")) @@ Field("number", Num(12))
        @@ Field("assignee", assignee) @@ Field("review", review)
        @@ Field("pull_request", pr)) :
      assignee \in {Undef, User(7)},
      review \in {Undef, Obj([id |-> Num(55), state |-> Str("approved"), user |-> User(2)])},
      pr \in {Undef, Null} \cup PullRequestObjects \cup PullRequestObjectsOther }

IssueObjects ==
  { Obj(Field("assignees", assignees) @@ Field("labels", labels)
        @@ Field("asignee", asignee) @@ Field("assignee", assignee)
        @@ Field("draft", draft) @@ Field("comments", Num(0))
        @@ Field("state", Str("open"))) :
      assignees \in {Undef, WithHole(User)} \cup ArraysOf(User),
      labels \in {Undef, WithHole(Label)} \cup ArraysOf(Label),
      asignee \in {Undef, User(8)},
      assignee \in {Undef, User(7)},
      draft \in {Undef, Null, Bool(FALSE)} }

IssuesPayloads ==
  { Obj(Field("action", Str("assigned")) @@ Field("assignee", assignee)
        @@ Field("issue", issue)) :
      assignee \in {Undef, User(7)},
      issue \in {Undef} \cup IssueObjects }

WorkflowRunPayloads ==
  { Obj(Field("action", Str("completed")) @@ Field("workflow", workflow)
        @@ Field("workflow_run", run)) :
      workflow \in {Undef, Obj([id |-> Num(1), name |-> Str("ci")])},
      run \in {Undef}
              \cup { Obj(Field("actor", actor) @@ Field("conclusion", conclusion)
                         @@ Field("id", Num(77))) :
                       actor \in {Undef, User(3)},
                       conclusion \in {Undef, Null, Str("success")} } }

\* payloads that are no object of any event, among them the empty payload
OddPayloads == {Null, Obj(EmptyObject)}

\* event types without a case in getMeasure (the header may also be missing)
UnknownEventTypes == {Undef, Str("some_future_event"), Str("ping"), Str("Push")}

MeasureInputs ==
  ({Str("push")} \X (PushPayloads \cup OddPayloads))
  \cup ({Str("pull_request"), Str("pull_request_review")}
        \X (PullRequestPayloads \cup OddPayloads))
  \cup ({Str("issues")} \X (IssuesPayloads \cup OddPayloads))
  \cup ({Str("workflow_run")} \X (WorkflowRunPayloads \cup OddPayloads))
  \cup (UnknownEventTypes
        \X (OddPayloads \cup PushPayloads \cup IssuesPayloads \cup WorkflowRunPayloads))

\* the call getMeasure(event_type, payload) is about to be made
MeasureInit ==
  /\ pc = "call"
  /\ \E in \in MeasureInputs :
       /\ event = [NoEvent EXCEPT !.headers = Headers(FALSE, in[1], Undef)]
       /\ parsedBody = in[2]
  /\ body = Undef
  /\ measure = NoMeasure
  /\ structuredRecord = EmptyObject
  /\ response = NoResponse
  /\ steps = <<>>
  /\ snsPublished = <<>>
  /\ s3Objects = <<>>
  /\ invocations = 0
  /\ secretFetches = 0
  /\ BatchInit

\* const measure = getMeasure(data.event_type, data.payload)
CallGetMeasure ==
  /\ pc = "call"
  /\ measure' = getMeasure(githubEvent, parsedBody)
  /\ pc' = "returned"
  /\ UNCHANGED << event, body, parsedBody, structuredRecord, response, steps,
                  snsPublished, s3Objects, invocations, secretFetches >>
  /\ UNCHANGED batchVars

MeasureNext == CallGetMeasure

SpecMeasure == MeasureInit /\ [][MeasureNext]_vars

(***************************************************************************)
(* The custom-data handler (src/unnamed/part_008): it takes a measure as   *)
(* JSON and writes it to the raw bucket.                                   *)
(***************************************************************************)
\* the Dimensions the requests of the model carry
CustomDimensions == Arr(<< Obj([Name |-> Str("repository"), Value |-> Str("org/repo")]) >>)

\* what a request may carry as MeasureName, MeasureValue(s) and Time
CustomMeasureNames == {Undef, Str("build_time"), Str("timestamp")}
CustomValueShapes == {"none", "value", "values", "values_clash", "both", "values_text"}
CustomTimes == {Undef, Null, Str("1700000000000")}

\* one element of MeasureValues
CustomValue(name, value) == Obj([Name |-> Str(name), Type |-> Str("BIGINT"), Value |-> Str(value)])

\* the MeasureValue / MeasureValues keys of a request of the given shape
CustomValueFields(shape) ==
  CASE shape = "none" -> EmptyObject
    [] shape = "value" -> Field("MeasureValue", Str("42"))
    [] shape = "values" ->
         Field("MeasureValues", Arr(<< CustomValue("build_ms", "42"), CustomValue("test_ms", "7") >>))
    [] shape = "values_clash" ->
         Field("MeasureValues",
               Arr(<< CustomValue("timestamp", "0"), CustomValue("dimensions", "none") >>))
    [] shape = "both" ->
         Field("MeasureValue", Str("42"))
         @@ Field("MeasureValues", Arr(<< CustomValue("build_ms", "42") >>))
    [] OTHER -> Field("MeasureValues", Str("42"))

\* the JSON object of a request: keys holding undefined are not in the object
CustomJson(withDimensions, name, withType, shape, time) ==
  Obj(Field("Dimensions", IF withDimensions THEN CustomDimensions ELSE Undef)
      @@ Field("MeasureName", name)
      @@ Field("MeasureValueType", IF withType THEN Str("BIGINT") ELSE Undef)
      @@ CustomValueFields(shape)
      @@ Field("Time", time))

\* the request bodies: the text, whether JSON.parse accepts it, and what it returns
CustomBodies ==
  { [text |-> "{oops", parses |-> FALSE, json |-> Undef],
    [text |-> "null", parses |-> TRUE, json |-> Null],
    [text |-> "42", parses |-> TRUE, json |-> Num(42)] }
  \cup
  { [text |-> "{D:" \o (IF d THEN "1" ELSE "0") \o ",N:" \o JSString(n)
               \o ",T:" \o (IF ty THEN "1" ELSE "0") \o ",V:" \o sh
               \o ",Time:" \o JSString(tm) \o "}",
     parses |-> TRUE,
     json |-> CustomJson(d, n, ty, sh, tm)] :
      d \in BOOLEAN, n \in CustomMeasureNames, ty \in BOOLEAN, sh \in CustomValueShapes,
      tm \in CustomTimes }

\* JSON.parse(event.body) in the custom-data handler
CustomParse(text) == CHOOSE b \in CustomBodies : b.text = text

\* the requests the custom-data API receives
CustomEvents ==
  { [NoEvent EXCEPT !.body = b] : b \in {Undef, Str("")} \cup { Str(c.text) : c \in CustomBodies } }

\* isValidJson without its test of MeasureValueType
isValidJson_noType(jsonData) ==
  IF jsonData.t \notin {"object", "array"} THEN "throws"
  ELSE IF ~HasKey(jsonData, "Dimensions") THEN "false"
  ELSE IF ~HasKey(jsonData, "MeasureName") THEN "false"
  ELSE IF HasKey(jsonData, "MeasureValue") \/ HasKey(jsonData, "MeasureValues")
  THEN "true" ELSE "false"

\* isValidJson(jsonData): 'k' in jsonData raises TypeError unless jsonData is an object
isValidJson(jsonData) ==
  IF jsonData.t \notin {"object", "array"} THEN "throws"
  ELSE IF ~HasKey(jsonData, "Dimensions") THEN "false"
  ELSE IF ~HasKey(jsonData, "MeasureName") THEN "false"
  ELSE IF ~HasKey(jsonData, "MeasureValueType") THEN "false"
  ELSE IF HasKey(jsonData, "MeasureValue") \/ HasKey(jsonData, "MeasureValues")
  THEN "true" ELSE "false"

\* the return statements of the custom-data handler
CustomMissingFields == [statusCode |-> 400, keys |-> {"message", "error"}]
CustomInvalidRequest == [statusCode |-> 400, keys |-> {"message", "error"}]
CustomNoBody == [statusCode |-> 400, keys |-> {"message"}]
CustomSuccess == [statusCode |-> 200, keys |-> {"result"}]

\* const time = 'Time' in jsonData ? jsonData.Time : timestamp
CustomTime(jsonData, timestamp) ==
  IF HasKey(jsonData, "Time") THEN Get(jsonData, "Time") ELSE Str(timestamp)

\* jsonData.MeasureValues.forEach(mv => structuredRecord[mv.Name] = mv.Value)
RECURSIVE CustomPutAll(_, _)
CustomPutAll(record, mvs) ==
  IF mvs = <<>> THEN record
  ELSE CustomPutAll(Put(record, JSString(Get(Head(mvs), "Name")), Get(Head(mvs), "Value")),
                    Tail(mvs))

\* lines 52-67: the record and the merge of the measure value(s) into it;
\* forEach raises TypeError when MeasureValues is not an array
CustomRecord(jsonData, timestamp) ==
  LET record == [timestamp |-> CustomTime(jsonData, timestamp),
                 dimensions |-> Get(jsonData, "Dimensions"),
                 measure_name |-> Get(jsonData, "MeasureName"),
                 measure_value_type |-> Get(jsonData, "MeasureValueType")]
  IN  IF HasKey(jsonData, "MeasureValue")
      THEN [thrown |-> FALSE,
            record |-> Put(record, JSString(Get(jsonData, "MeasureName")),
                           Get(jsonData, "MeasureValue"))]
      ELSE IF Get(jsonData, "MeasureValues").t = "array"
      THEN [thrown |-> FALSE,
            record |-> CustomPutAll(record, Get(jsonData, "MeasureValues").a)]
      ELSE [thrown |-> TRUE, record |-> record]

CustomInit ==
  /\ pc = "customIdle"
  /\ event = NoEvent
  /\ body = Undef
  /\ parsedBody = Undef
  /\ measure = NoMeasure
  /\ structuredRecord = EmptyObject
  /\ response = NoResponse
  /\ steps = <<>>
  /\ snsPublished = <<>>
  /\ s3Objects = <<>>
  /\ invocations = 0
  /\ secretFetches = 0
  /\ BatchInit

\* API Gateway invokes the custom-data handler with a request
CustomInvoke ==
  /\ pc = "customIdle"
  /\ invocations < MaxInvocations
  /\ \E e \in CustomEvents : event' = e
  /\ invocations' = invocations + 1
  /\ pc' = "customStart"
  /\ UNCHANGED << body, parsedBody, measure, structuredRecord, response, steps,
                  snsPublished, s3Objects, secretFetches >>
  /\ UNCHANGED batchVars

\* lines 25-74 and 98-124: the body check, JSON.parse, isValidJson and the record
CustomHandle ==
  /\ pc = "customStart"
  /\ body' = event.body
  /\ IF ~Truthy(event.body)
     THEN /\ response' = CustomNoBody
          /\ pc' = "customDone"
          /\ UNCHANGED << parsedBody, structuredRecord, steps >>
     ELSE IF ~CustomParse(event.body.s).parses
     THEN /\ response' = CustomInvalidRequest
          /\ pc' = "customDone"
          /\ steps' = steps \o << "parse" >>
          /\ UNCHANGED << parsedBody, structuredRecord >>
     ELSE LET jsonData == CustomParse(event.body.s).json
              built == CustomRecord(jsonData, Timestamp(invocations))
          IN  /\ parsedBody' = jsonData
              /\ CASE isValidJson(jsonData) = "throws" ->
                        /\ response' = CustomInvalidRequest
                        /\ pc' = "customDone"
                        /\ steps' = steps \o << "parse", "validate" >>
                        /\ UNCHANGED structuredRecord
                   [] isValidJson(jsonData) = "false" ->
                        /\ response' = CustomMissingFields
                        /\ pc' = "customDone"
                        /\ steps' = steps \o << "parse", "validate" >>
                        /\ UNCHANGED structuredRecord
                   [] OTHER ->
                        IF built.thrown
                        THEN /\ response' = CustomInvalidRequest
                             /\ pc' = "customDone"
                             /\ steps' = steps \o << "parse", "validate" >>
                             /\ UNCHANGED structuredRecord
                        ELSE /\ structuredRecord' = built.record
                             /\ pc' = "customPut"
                             /\ steps' = steps \o << "parse", "validate", "assemble" >>
                             /\ UNCHANGED response
  /\ UNCHANGED << event, measure, snsPublished, s3Objects, invocations, secretFetches >>
  /\ UNCHANGED batchVars

\* lines 76-111: await s3Client.send(new PutObjectCommand(...)); a failure is caught
\* by the same catch as a parse error
CustomPutObject ==
  /\ pc = "customPut"
  /\ steps' = steps \o << "write" >>
  /\ pc' = "customDone"
  /\ \E ok \in BOOLEAN :
       IF ok
       THEN /\ s3Objects' =
                 Append(s3Objects,
                        [Key |-> "custom_data/" \o Timestamp(invocations) \o ".json",
                         Body |-> JSONStringify(structuredRecord)])
            /\ response' = CustomSuccess
       ELSE /\ response' = CustomInvalidRequest
            /\ UNCHANGED s3Objects
  /\ UNCHANGED << event, body, parsedBody, measure, structuredRecord, snsPublished,
                  invocations, secretFetches >>
  /\ UNCHANGED batchVars

\* the invocation is over
CustomReturn ==
  /\ pc = "customDone"
  /\ pc' = "customIdle"
  /\ event' = NoEvent
  /\ body' = Undef
  /\ parsedBody' = Undef
  /\ structuredRecord' = EmptyObject
  /\ response' = NoResponse
  /\ steps' = <<>>
  /\ s3Objects' = <<>>
  /\ UNCHANGED << measure, snsPublished, invocations, secretFetches >>
  /\ UNCHANGED batchVars

CustomNext ==
  \/ CustomInvoke
  \/ CustomHandle
  \/ CustomPutObject
  \/ CustomReturn

SpecCustom == CustomInit /\ [][CustomNext]_vars

(***************************************************************************)
(* The daily consolidation (src/lambdas/sns-handler/index.ts, lines        *)
(* 337-564).  A key `<prefix>/year=/month=/day=/hour=/<name>.json` is the  *)
(* record [prefix, day, name]; the body of a consolidated object is the    *)
(* sequence of its lines.                                                  *)
(***************************************************************************)
\* how many raw objects are written in the model
MaxRawObjects == 2

\* the days of the clock
Days == {1, 2}

\* lines 365-374: const allPrefixes
allPrefixes ==
  << "event_type=push", "event_type=pull_request", "event_type=issues",
     "event_type=workflow_run", "event_type=pull_request_review",
     "custom_data", "github_api_result" >>

\* the prefixes the model writes raw objects under
WrittenPrefixes == {"event_type=push", "custom_data"}

\* JSON.stringify(structuredRecord) of the n-th raw object
RecordText(n) == "{\"delivery_id\":\"d" \o Dec(n) \o "\"}"

\* the body of the n-th raw object: a record written by one of the handlers, or
\* content that did not come from them (an empty or a truncated upload)
RawBodyKinds == {"record", "empty", "truncated"}
RawBody(kind, n) ==
  CASE kind = "record" -> RecordText(n)
    [] kind = "empty" -> ""
    [] OTHER -> "{\"delivery_id\":"

\* JSON.parse(content) at line 457
ConsolidationParse(content) ==
  IF \E n \in 1 .. MaxRawObjects : RecordText(n) = content
  THEN [parses |-> TRUE,
        json |-> Obj([delivery_id |->
                        Str("d" \o Dec(CHOOSE n \in 1 .. MaxRawObjects : RecordText(n) = content))])]
  ELSE [parses |-> FALSE, json |-> Undef]

\* JSON.stringify(item) at line 473
ConsolidationStringify(item) == "{\"delivery_id\":\"" \o Get(item, "delivery_id").s \o "\"}"

\* event.consolidateForDate: absent (0) or a day
ConsolidateForDates == {0} \cup Days

\* lines 353-355: the date to consolidate, yesterday by default
DateToConsolidate(consolidateForDate, now) ==
  IF consolidateForDate # 0 THEN consolidateForDate ELSE now - 1

\* what ListObjectsV2 returns for the Prefix of lines 413-416, in key order
RECURSIVE InKeyOrder(_)
InKeyOrder(keys) ==
  IF keys = {} THEN <<>>
  ELSE LET first == CHOOSE k \in keys : \A j \in keys : k.name <= j.name
       IN  << first >> \o InKeyOrder(keys \ {first})

Listed(bucket, prefix, day) ==
  InKeyOrder({k \in DOMAIN bucket : k.prefix = prefix /\ k.day = day})

\* lines 443-464: the parsed content of the objects that have content and parse
RECURSIVE ReadAll(_, _)
ReadAll(bucket, keys) ==
  IF keys = <<>> THEN <<>>
  ELSE LET content == bucket[Head(keys)]
       IN  (IF content # "" /\ ConsolidationParse(content).parses
            THEN << ConsolidationParse(content).json >> ELSE <<>>)
           \o ReadAll(bucket, Tail(keys))

\* line 472: the key of the consolidated object
consolidatedKey(prefix, day) == [prefix |-> prefix, day |-> day, name |-> "consolidated"]

\* line 473: consolidatedData.map(item => JSON.stringify(item)).join('\n')
consolidatedContent(data) == [i \in DOMAIN data |-> ConsolidationStringify(data[i])]

\* a consolidation that deletes the raw objects before it writes the consolidated one
StatementAfterRead_delete == "consDelete"

\* lines 475-497: the PutObject comes after the read loop, the delete after the put
StatementAfterRead == "consPut"
StatementAfterPut == "consDelete"

\* the return value of the handler and the rethrown error of lines 396-399
ConsolidationCompleted == [statusCode |-> 200, keys |-> {"message"}]
Rethrown == [statusCode |-> 0, keys |-> {"error"}]

\* the loop of lines 376-385 goes on to the next prefix, then to updateGlueCatalog
Continue(i) ==
  [pc |-> IF i < Len(allPrefixes) THEN "consList" ELSE "consGlue", prefixIndex |-> i + 1]

\* a catch that logs the error and lets the loop go on
Rethrow_swallowed(i) == Continue(i)

\* lines 396-399: catch (error) { throw error }: the run is over
Rethrow(i) == [pc |-> "consDone", prefixIndex |-> i]

\* one entry of the log of a run
Step(name, ok) == [step |-> name, prefix |-> prefixIndex, ok |-> ok]

ConsolidationInit ==
  /\ pc = "consIdle"
  /\ event = NoEvent
  /\ body = Undef
  /\ parsedBody = Undef
  /\ measure = NoMeasure
  /\ structuredRecord = EmptyObject
  /\ response = NoResponse
  /\ steps = <<>>
  /\ snsPublished = <<>>
  /\ s3Objects = <<>>
  /\ invocations = 0
  /\ secretFetches = 0
  /\ BatchInit

\* a handler (or another writer) puts an object into the raw bucket, under today's
\* partition
RawPutObject ==
  /\ rawWrites < MaxRawObjects
  /\ rawWrites' = rawWrites + 1
  /\ \E prefix \in WrittenPrefixes, kind \in RawBodyKinds :
       rawBucket' = ([prefix |-> prefix, day |-> today, name |-> rawWrites + 1]
                       :> RawBody(kind, rawWrites + 1)) @@ rawBucket
  /\ UNCHANGED << pc, response, steps, invocations, webhookVars, today,
                  consolidatedBucket, glueCatalog, dateToConsolidate, prefixIndex,
                  objects, consolidatedData, deletedObjects, putObjects, recordIndex >>

\* the UTC day changes
Midnight ==
  /\ today + 1 \in Days
  /\ today' = today + 1
  /\ UNCHANGED << pc, response, steps, invocations, webhookVars, rawBucket,
                  consolidatedBucket, glueCatalog, dateToConsolidate, prefixIndex,
                  objects, consolidatedData, deletedObjects, putObjects, rawWrites,
                  recordIndex >>

\* lines 345-362: the schedule (or an operator) invokes the consolidation
ConsolidationInvoke ==
  /\ pc = "consIdle"
  /\ invocations < MaxInvocations
  /\ invocations' = invocations + 1
  /\ \E consolidateForDate \in ConsolidateForDates :
       dateToConsolidate' = DateToConsolidate(consolidateForDate, today)
  /\ prefixIndex' = 1
  /\ pc' = "consList"
  /\ UNCHANGED << response, steps, webhookVars, today, rawBucket, consolidatedBucket,
                  glueCatalog, objects, consolidatedData, deletedObjects, putObjects,
                  rawWrites, recordIndex >>

\* the run stops at a failed call, or goes on
Fail(name) ==
  /\ steps' = Append(steps, Step(name, FALSE))
  /\ pc' = Rethrow(prefixIndex).pc
  /\ prefixIndex' = Rethrow(prefixIndex).prefixIndex
  /\ response' = Rethrown

\* lines 412-440: the listing of the raw objects of the prefix and the date
ListObjects ==
  /\ pc = "consList"
  /\ \E ok \in BOOLEAN :
       IF ~ok
       THEN Fail("list") /\ UNCHANGED objects
       ELSE LET found == Listed(rawBucket, allPrefixes[prefixIndex], dateToConsolidate)
            IN  /\ steps' = Append(steps, Step("list", TRUE))
                /\ UNCHANGED response
                /\ IF found = <<>>
                   THEN /\ pc' = Continue(prefixIndex).pc
                        /\ prefixIndex' = Continue(prefixIndex).prefixIndex
                        /\ UNCHANGED objects
                   ELSE /\ pc' = "consRead"
                        /\ objects' = found
                        /\ UNCHANGED prefixIndex
  /\ UNCHANGED << invocations, webhookVars, today, rawBucket, consolidatedBucket,
                  glueCatalog, dateToConsolidate, consolidatedData, deletedObjects,
                  putObjects, rawWrites, recordIndex >>

\* lines 442-469: the read loop; a failed GetObject ends the run
ReadObjects ==
  /\ pc = "consRead"
  /\ \E ok \in BOOLEAN :
       IF ~ok
       THEN Fail("read") /\ UNCHANGED << objects, consolidatedData >>
       ELSE LET data == ReadAll(rawBucket, objects)
            IN  /\ steps' = Append(steps, Step("read", TRUE))
                /\ UNCHANGED response
                /\ IF data = <<>>
                   THEN /\ pc' = Continue(prefixIndex).pc
                        /\ prefixIndex' = Continue(prefixIndex).prefixIndex
                        /\ objects' = <<>>
                        /\ UNCHANGED consolidatedData
                   ELSE /\ pc' = StatementAfterRead
                        /\ consolidatedData' = data
                        /\ UNCHANGED << prefixIndex, objects >>
  /\ UNCHANGED << invocations, webhookVars, today, rawBucket, consolidatedBucket,
                  glueCatalog, dateToConsolidate, deletedObjects, putObjects, rawWrites,
                  recordIndex >>

\* lines 471-483: the consolidated object is written under its fixed key
PutConsolidated ==
  /\ pc = "consPut"
  /\ \E ok \in BOOLEAN :
       IF ~ok
       THEN Fail("put") /\ UNCHANGED << consolidatedBucket, putObjects >>
       ELSE LET key == consolidatedKey(allPrefixes[prefixIndex], dateToConsolidate)
            IN  /\ steps' = Append(steps, Step("put", TRUE))
                /\ consolidatedBucket' =
                     (key :> consolidatedContent(consolidatedData)) @@ consolidatedBucket
                /\ putObjects' = putObjects \cup {key}
                /\ pc' = StatementAfterPut
                /\ UNCHANGED << response, prefixIndex >>
  /\ UNCHANGED << invocations, webhookVars, today, rawBucket, glueCatalog,
                  dateToConsolidate, objects, consolidatedData, deletedObjects,
                  rawWrites, recordIndex >>

\* the elements of a sequence
Range(seq) == { seq[i] : i \in DOMAIN seq }

\* the bucket without the given keys
Without(bucket, keys) == [k \in DOMAIN bucket \ keys |-> bucket[k]]

\* lines 485-497: DeleteObjects of every listed key; a failed call may have
\* deleted some of them
DeleteObjects ==
  /\ pc = "consDelete"
  /\ \E ok \in BOOLEAN, gone \in SUBSET Range(objects) :
       /\ ok => gone = Range(objects)
       /\ rawBucket' = Without(rawBucket, gone)
       /\ deletedObjects' =
            deletedObjects \cup {[Key |-> k, Body |-> rawBucket[k]] : k \in gone}
       /\ IF ok
          THEN /\ steps' = Append(steps, Step("delete", TRUE))
               /\ pc' = Continue(prefixIndex).pc
               /\ prefixIndex' = Continue(prefixIndex).prefixIndex
               /\ UNCHANGED response
          ELSE Fail("delete")
  /\ objects' = <<>>
  /\ consolidatedData' = <<>>
  /\ UNCHANGED << invocations, webhookVars, today, consolidatedBucket, glueCatalog,
                  dateToConsolidate, putObjects, rawWrites, recordIndex >>

\* lines 387-395 and 500-564: the table is created when missing, the partition of
\* the date is added, and the handler returns
updateGlueCatalog ==
  /\ pc = "consGlue"
  /\ \E ok \in BOOLEAN, created \in BOOLEAN :
       IF ok
       THEN /\ glueCatalog' =
                 [table |-> TRUE,
                  partitions |-> glueCatalog.partitions \cup {dateToConsolidate}]
            /\ steps' = Append(steps, Step("glue", TRUE))
            /\ response' = ConsolidationCompleted
            /\ pc' = "consDone"
            /\ UNCHANGED prefixIndex
       ELSE /\ glueCatalog' = [glueCatalog EXCEPT !.table = @ \/ created]
            /\ Fail("glue")
  /\ UNCHANGED << invocations, webhookVars, today, rawBucket, consolidatedBucket,
                  dateToConsolidate, objects, consolidatedData, deletedObjects,
                  putObjects, rawWrites, recordIndex >>

\* the run is over
ConsolidationReturn ==
  /\ pc = "consDone"
  /\ pc' = "consIdle"
  /\ response' = NoResponse
  /\ steps' = <<>>
  /\ dateToConsolidate' = 0
  /\ prefixIndex' = 0
  /\ objects' = <<>>
  /\ consolidatedData' = <<>>
  /\ deletedObjects' = {}
  /\ putObjects' = {}
  /\ UNCHANGED << invocations, webhookVars, today, rawBucket, consolidatedBucket,
                  glueCatalog, rawWrites, recordIndex >>

ConsolidationNext ==
  \/ RawPutObject
  \/ Midnight
  \/ ConsolidationInvoke
  \/ ListObjects
  \/ ReadObjects
  \/ PutConsolidated
  \/ DeleteObjects
  \/ updateGlueCatalog
  \/ ConsolidationReturn

SpecConsolidate == ConsolidationInit /\ [][ConsolidationNext]_vars

(***************************************************************************)
(* The SNS handler (src/lambdas/sns-handler/index.ts, lines 154-296): for  *)
(* every SNS record it fetches the pull request from GitHub and writes its *)
(* statistics to the raw bucket.                                           *)
(***************************************************************************)
\* the longest batch of records in the model
MaxRecords == 3

\* record.Sns.Message: the message the webhook handler published for pull request
\* n, or text that is not JSON
PullRequestMessage(n) ==
  [text |-> "pr" \o Dec(n), parses |-> TRUE,
   json |-> Obj([deliveryId |-> Str("d" \o Dec(n)), eventType |-> Str("pull_request"),
                 action |-> Str("opened"), number |-> Num(n),
                 organization |-> Str("org"), repository |-> Str("repo")])]
SnsMessages ==
  { [text |-> "{oops", parses |-> FALSE, json |-> Undef] }
  \cup { PullRequestMessage(n) : n \in 1 .. MaxRecords }

\* JSON.parse(message)
SnsParse(text) == CHOOSE m \in SnsMessages : m.text = text

\* the k-th record of a batch: an SNS record with its message, or a record
\* without Sns
SnsRecord(kind, k) ==
  CASE kind = "pull_request" -> Obj([Sns |-> Obj([Message |-> Str(PullRequestMessage(k).text)])])
    [] kind = "garbage" -> Obj([Sns |-> Obj([Message |-> Str("{oops")])])
    [] OTHER -> Obj(EmptyObject)
RecordKinds == {"pull_request", "garbage", "other"}

\* the events the handler receives: event.Records may be absent
SnsEvents ==
  { [Records |-> Undef] }
  \cup { [Records |-> Arr([k \in 1 .. n |-> SnsRecord(kinds[k], k)])] :
           kinds \in [1 .. MaxRecords -> RecordKinds], n \in 0 .. MaxRecords }

\* const records = event.Records || []
Records == IF Truthy(event.Records) THEN event.Records.a ELSE <<>>

\* the data of octokit.pulls.get for the pull request of the given number
PullRequestData(number) ==
  Obj([changed_files |-> Num(number.n), additions |-> Num(10 * number.n), deletions |-> Num(0)])

\* lines 262-273: const structuredRecord
PullRequestStatistics(parsedMessage, pullRequest, timestamp) ==
  [timestamp |-> Str(timestamp),
   event_type |-> Str("pull_request_api_result"),
   organization |-> Get(parsedMessage, "organization"),
   repository |-> Get(parsedMessage, "repository"),
   pull_number |-> Get(parsedMessage, "number"),
   action |-> Get(parsedMessage, "action"),
   delivery_id |-> Get(parsedMessage, "deliveryId"),
   pr_changed_files |-> Get(pullRequest, "changed_files"),
   pr_additions |-> Get(pullRequest, "additions"),
   pr_deletions |-> Get(pullRequest, "deletions")]

\* line 277: the object key
StatisticsKey(deliveryId, timestamp) ==
  "github_api_result/" \o timestamp \o "_" \o JSString(deliveryId) \o ".json"

\* the return statements of the handler
SnsSuccess == [statusCode |-> 200, keys |-> {"message"}]
SnsUnknownError == [statusCode |-> 500, keys |-> {"message"}]

\* a catch inside the loop that logs the error and goes on with the next record
AfterRecordFailure_skip(k) == [pc |-> "snsRecord", recordIndex |-> k + 1]

\* lines 212-220: the catch around the loop ends the invocation
AfterRecordFailure(k) == [pc |-> "snsDone", recordIndex |-> k]

\* the message of the record the loop stands at
parsedMessage == SnsParse(Get(Get(Records[recordIndex], "Sns"), "Message").s).json

\* one entry of the log of an invocation
RecordStep(name, ok) == [step |-> name, record |-> recordIndex, ok |-> ok]

\* a call made for the current record has failed
RecordFailed(name) ==
  /\ steps' = Append(steps, RecordStep(name, FALSE))
  /\ pc' = AfterRecordFailure(recordIndex).pc
  /\ recordIndex' = AfterRecordFailure(recordIndex).recordIndex
  /\ response' = SnsUnknownError

SnsInit ==
  /\ pc = "snsIdle"
  /\ event = [Records |-> Undef]
  /\ body = Undef
  /\ parsedBody = Undef
  /\ measure = NoMeasure
  /\ structuredRecord = EmptyObject
  /\ response = NoResponse
  /\ steps = <<>>
  /\ snsPublished = <<>>
  /\ s3Objects = <<>>
  /\ invocations = 0
  /\ secretFetches = 0
  /\ BatchInit

\* SNS invokes the handler with a batch of records
SnsInvoke ==
  /\ pc = "snsIdle"
  /\ invocations < MaxInvocations
  /\ invocations' = invocations + 1
  /\ \E e \in SnsEvents : event' = e
  /\ pc' = "snsSecret"
  /\ UNCHANGED << body, parsedBody, measure, structuredRecord, response, steps,
                  snsPublished, s3Objects, secretFetches, batchVars >>

\* lines 169-172: const records = ...; await getSecretFromParameterStore(...)
SnsGetSecret ==
  /\ pc = "snsSecret"
  /\ secretFetches' = secretFetches + 1
  /\ \E ok \in BOOLEAN :
       IF ok
       THEN /\ pc' = "snsRecord"
            /\ recordIndex' = 1
            /\ steps' = Append(steps, RecordStep("getSecret", TRUE))
            /\ UNCHANGED response
       ELSE /\ pc' = "snsDone"
            /\ response' = SnsUnknownError
            /\ steps' = Append(steps, RecordStep("getSecret", FALSE))
            /\ UNCHANGED recordIndex
  /\ UNCHANGED << event, body, parsedBody, measure, structuredRecord, snsPublished,
                  s3Objects, invocations, today, rawBucket, consolidatedBucket,
                  glueCatalog, dateToConsolidate, prefixIndex, objects,
                  consolidatedData, deletedObjects, putObjects, rawWrites >>

\* lines 174-183 and 208-211: the loop head, if (record.Sns), JSON.parse(message);
\* after the last record the handler returns 200
SnsNextRecord ==
  /\ pc = "snsRecord"
  /\ IF recordIndex > Len(Records)
     THEN /\ response' = SnsSuccess
          /\ pc' = "snsDone"
          /\ UNCHANGED << steps, recordIndex >>
     ELSE IF ~Truthy(Get(Records[recordIndex], "Sns"))
     THEN /\ recordIndex' = recordIndex + 1
          /\ UNCHANGED << pc, response, steps >>
     ELSE IF ~SnsParse(Get(Get(Records[recordIndex], "Sns"), "Message").s).parses
     THEN RecordFailed("parse")
     ELSE /\ steps' = Append(steps, RecordStep("parse", TRUE))
          /\ pc' = "snsGet"
          /\ UNCHANGED << response, recordIndex >>
  /\ UNCHANGED << event, body, parsedBody, measure, structuredRecord, snsPublished,
                  s3Objects, invocations, secretFetches, today, rawBucket,
                  consolidatedBucket, glueCatalog, dateToConsolidate, prefixIndex,
                  objects, consolidatedData, deletedObjects, putObjects, rawWrites >>

\* lines 181-189: await octokit.pulls.get(...)
SnsGetPullRequest ==
  /\ pc = "snsGet"
  /\ \E ok \in BOOLEAN :
       IF ok
       THEN /\ parsedBody' = PullRequestData(Get(parsedMessage, "number"))
            /\ steps' = Append(steps, RecordStep("get", TRUE))
            /\ pc' = "snsPut"
            /\ UNCHANGED << response, recordIndex >>
       ELSE RecordFailed("get") /\ UNCHANGED parsedBody
  /\ UNCHANGED << event, body, measure, structuredRecord, snsPublished,
                  s3Objects, invocations, secretFetches, today, rawBucket,
                  consolidatedBucket, glueCatalog, dateToConsolidate, prefixIndex,
                  objects, consolidatedData, deletedObjects, putObjects, rawWrites >>

\* lines 191-201 and 243-296: await sendPullRequestDataToS3(...)
sendPullRequestDataToS3 ==
  /\ pc = "snsPut"
  /\ structuredRecord' =
       PullRequestStatistics(parsedMessage, parsedBody, Timestamp(invocations))
  /\ \E ok \in BOOLEAN :
       IF ok
       THEN /\ s3Objects' =
                 Append(s3Objects,
                        [Key |-> StatisticsKey(Get(parsedMessage, "deliveryId"),
                                               Timestamp(invocations)),
                         Body |-> JSONStringify(structuredRecord')])
            /\ steps' = Append(steps, RecordStep("write", TRUE))
            /\ recordIndex' = recordIndex + 1
            /\ pc' = "snsRecord"
            /\ UNCHANGED response
       ELSE RecordFailed("write") /\ UNCHANGED s3Objects
  /\ UNCHANGED << event, body, parsedBody, measure, snsPublished,
                  invocations, secretFetches, today, rawBucket,
                  consolidatedBucket, glueCatalog, dateToConsolidate, prefixIndex,
                  objects, consolidatedData, deletedObjects, putObjects, rawWrites >>

\* the invocation is over
SnsReturn ==
  /\ pc = "snsDone"
  /\ pc' = "snsIdle"
  /\ event' = [Records |-> Undef]
  /\ parsedBody' = Undef
  /\ structuredRecord' = EmptyObject
  /\ response' = NoResponse
  /\ steps' = <<>>
  /\ s3Objects' = <<>>
  /\ recordIndex' = 0
  /\ UNCHANGED << body, measure, snsPublished, invocations, secretFetches, today,
                  rawBucket, consolidatedBucket, glueCatalog, dateToConsolidate,
                  prefixIndex, objects, consolidatedData, deletedObjects, putObjects,
                  rawWrites >>

SnsNext ==
  \/ SnsInvoke
  \/ SnsGetSecret
  \/ SnsNextRecord
  \/ SnsGetPullRequest
  \/ sendPullRequestDataToS3
  \/ SnsReturn

SpecSns == SnsInit /\ [][SnsNext]_vars

(***************************************************************************)
(* Properties.                                                             *)
(***************************************************************************)

\* the request of the current invocation carries the signature of its body
SignatureValid == verify(SecretToken, body.s, signature) = "true"

\* the current invocation has called webhooks.verify
Verified == "verify" \in Range(steps)

\* C1: whenever signature verification of the request body fails, the invocation
\* answers 401 and performs no later step: nothing is parsed, no SNS message is
\* published and nothing is written to the bucket.
C1_FailedVerificationStops ==
  (Verified /\ ~SignatureValid) =>
     /\ pc = "done"
     /\ response.statusCode = 401
     /\ steps = << "getSecret", "verify" >>
     /\ parsedBody = Undef
     /\ snsPublished = <<>>
     /\ s3Objects = <<>>

\* the body of the current invocation is a text JSON.parse rejects
BodyUnparseable == body.t = "string" /\ body.s # "" /\ ~JSONParse(body.s).parses

Returned == pc = "returned"
EventTypeKnown == githubEvent.t = "string" /\ githubEvent.s \in KnownEventTypes
MeasureValues == Range(measure.measure.measureValues)
Names == { mv.Name : mv \in MeasureValues }
\* the Value of the entries called name
ValuesOf(name) == { mv.Value : mv \in { e \in MeasureValues : e.Name = name } }

\* C4: for every event type outside the known set getMeasure returns, for any
\* payload, exactly the fallback measure {dummyMeasure, BIGINT, "1"} and raises nothing.
C4_UnknownEventFallback ==
  (Returned /\ ~EventTypeKnown) =>
     /\ ~measure.thrown
     /\ DOMAIN measure.measure = {"measureName", "measureValueType", "measureValue"}
     /\ measure.measure.measureName = "dummyMeasure"
     /\ measure.measure.measureValueType = "BIGINT"
     /\ measure.measure.measureValue = "1"

\* C4 witness: the fallback measure was returned for "some_future_event" and a
\* payload holding data
C4_Witness ==
  /\ Returned
  /\ githubEvent = Str("some_future_event")
  /\ parsedBody \in PushPayloads
  /\ ~measure.thrown
  /\ measure.measure.measureName = "dummyMeasure"

\* C5: for every event type in the known set, getMeasure(type, {}) with the empty
\* payload does not throw.
C5_EmptyPayloadDoesNotThrow ==
  (Returned /\ EventTypeKnown /\ parsedBody = Obj(EmptyObject)) => ~measure.thrown

\* the flattened arrays: the event type, the object holding the array, the key of
\* the array and the common prefix of the entry names
FlattenedArrays ==
  { [ev |-> "pull_request", holder |-> "pull_request", key |-> "assignees",
     prefix |-> "pr_pr_assignees"],
    [ev |-> "pull_request", holder |-> "pull_request", key |-> "labels",
     prefix |-> "pr_pr_labels"],
    [ev |-> "issues", holder |-> "issue", key |-> "assignees",
     prefix |-> "issues_issue_assignees"],
    [ev |-> "issues", holder |-> "issue", key |-> "labels",
     prefix |-> "issues_issue_labels"] }

\* the sub-fields the indexed entries of the flattened arrays may carry
SubFields == {"id", "login", "name", "default"}

\* the names of the indexed entries of index i
IndexedNames(prefix, i) == { prefix \o "_" \o Dec(i) \o "_" \o f : f \in SubFields }

\* the flattening of array f in a returned measure: the true length under
\* {prefix}_length, indexed entries for the indices below min(N, 5) and no others
FlattenedAsClaimed(f) ==
  LET array == Get(Get(parsedBody, f.holder), f.key)
      N == Len(array.a)
  IN  (Returned /\ IsStr(githubEvent, f.ev) /\ array.t = "array" /\ ~measure.thrown) =>
        /\ ValuesOf(f.prefix \o "_length") = {Str(Dec(N))}
        /\ \A i \in 0 .. MaxArray :
             (i >= N \/ i >= FlattenLimit) => IndexedNames(f.prefix, i) \cap Names = {}

\* C6: for every flattened array field (pull-request assignees and labels, issue
\* assignees and labels) of length N the output holds a {prefix}_length entry with
\* the decimal string of N and indexed entries only for the indices 0 .. min(N,5)-1.
C6_ArrayFlattening == \A f \in FlattenedArrays : FlattenedAsClaimed(f)

\* getMeasure has returned a measure for a push event (it raises when the payload
\* has no commits or no pusher)
PushReturned == Returned /\ IsStr(githubEvent, "push") /\ ~measure.thrown

\* the eight entries every push measure holds, in the order of the code
PushEntries ==
  << MV("push_after", "VARCHAR", Get(parsedBody, "after")),
     MV("push_before", "VARCHAR", Get(parsedBody, "before")),
     MV("push_commits_length", "BIGINT", Str(Dec(Len(Get(parsedBody, "commits").a)))),
     MV("push_created", "BOOLEAN", Str(JSString(Get(parsedBody, "created")))),
     MV("push_deleted", "BOOLEAN", Str(JSString(Get(parsedBody, "deleted")))),
     MV("push_forced", "BOOLEAN", Str(JSString(Get(parsedBody, "forced")))),
     MV("push_pusher_name", "VARCHAR", Get(Get(parsedBody, "pusher"), "name")),
     MV("push_ref", "VARCHAR", Get(parsedBody, "ref")) >>

\* the push measure is the Multi measure "push" with the eight entries, plus
\* push_base_ref exactly when withBaseRef
PushMeasureIs(withBaseRef) ==
  /\ measure.measure.measureName = "push"
  /\ measure.measure.measureValueType = "MULTI"
  /\ measure.measure.measureValues =
       PushEntries \o (IF withBaseRef
                       THEN << MV("push_base_ref", "VARCHAR", Get(parsedBody, "base_ref")) >>
                       ELSE <<>>)

PullRequestReturned == Returned /\ IsStr(githubEvent, "pull_request") /\ ~measure.thrown
Merged == Get(Get(parsedBody, "pull_request"), "merged")

\* a pull_request measure holds the entry name with value "false" when merged is
\* false, and no entry of that name when merged is undefined or null
MergedEntryIs(name) ==
  PullRequestReturned =>
     /\ Merged = Bool(FALSE) => ValuesOf(name) = {Str("false")}
     /\ Nullish(Merged) => name \notin Names

C8_WitnessAbsent ==
  /\ PullRequestReturned
  /\ Merged = Undef
  /\ "pr_pr_merged" \notin Names
  /\ "pr_pr_number" \in Names

\* the steps of the current invocation after the secret has been fetched
Pipeline == SelectSeq(steps, LAMBDA st : st # "getSecret")

\* s is an initial part of t
IsPrefix(s, t) == Len(s) <= Len(t) /\ SubSeq(t, 1, Len(s)) = s

\* C9: no partial write exists in an invocation: once it has answered, either the
\* full record was assembled and handed to the bucket, or no external write (S3 put
\* or SNS publish) was attempted; an invocation that answers 500 because getMeasure
\* raised has attempted no external write.
C9_NoPartialWrite ==
  pc = "done" =>
     /\ ("publish" \in Range(steps) \/ "write" \in Range(steps))
          => ("assemble" \in Range(steps) /\ "write" \in Range(steps))
     /\ measure.thrown => (snsPublished = <<>> /\ "publish" \notin Range(steps))

WriteFailed == "write" \in Range(steps) /\ s3Objects = <<>>

\* C11: the handler answers 200 with {message, eventType} only after verification,
\* extraction and the write to the bucket have all succeeded; a failure during
\* extraction or during the write is answered with 500 carrying {message, error}.
C11_SuccessAndFailureAnswers ==
  pc = "done" =>
     /\ response.statusCode = 200 =>
          /\ response.keys = {"message", "eventType"}
          /\ SignatureValid
          /\ ~measure.thrown
          /\ "extract" \in Range(steps)
          /\ Len(s3Objects) = 1
     /\ (measure.thrown \/ WriteFailed) =>
          response = [statusCode |-> 500, keys |-> {"message", "error"}]

\* the part of C11 that does not depend on the signature: a 200 follows a
\* successful extraction and write, a failed extraction or write gives 500
C11_ExceptVerification ==
  pc = "done" =>
     /\ response.statusCode = 200 =>
          /\ response.keys = {"message", "eventType"}
          /\ Verified
          /\ ~measure.thrown
          /\ "extract" \in Range(steps)
          /\ Len(s3Objects) = 1
     /\ (measure.thrown \/ WriteFailed) =>
          response = [statusCode |-> 500, keys |-> {"message", "error"}]

\* C12: the secret is fetched from the parameter store once per process and cached:
\* over any sequence of invocations of one process at most one GetParameter call is
\* issued.
C12_SecretFetchedOnce == secretFetches <= 1

\* the source addresses of the model that lie in no GitHub range
OutsideGitHub == {Ip(140, 82, 128, 0), Ip(203, 0, 113, 9)}

\* C13: a request whose source address is known and lies outside every GitHub range
\* is answered 403 before the secret is fetched, before verification and without
\* any write; a request whose source address is unknown skips the origin check and
\* is never answered 403.
C13_OriginCheck ==
  pc \notin {"idle", "start"} =>
     /\ event.sourceIp \in OutsideGitHub =>
          /\ pc = "done"
          /\ response = [statusCode |-> 403, keys |-> {"message"}]
          /\ steps = <<>>
          /\ body = Undef
          /\ parsedBody = Undef
          /\ snsPublished = <<>>
          /\ s3Objects = <<>>
     /\ event.sourceIp \notin OutsideGitHub => response.statusCode # 403

\* C13 witness: a request from just outside 140.82.112.0/20 carrying a valid
\* signature has been answered 403 with nothing done
C13_Witness ==
  /\ pc = "done"
  /\ event.sourceIp = Ip(140, 82, 128, 0)
  /\ signature = Str(Sign(SecretToken, "push"))
  /\ response.statusCode = 403
  /\ steps = <<>>

\* C13, second case reached: a request without a source address was processed to 200
C13_WitnessUnknownOrigin ==
  /\ pc = "done"
  /\ event.sourceIp = Undef
  /\ response.statusCode = 200

\* C14: signature verification accepts exactly the correctly signed requests: once
\* verify has been called, the request goes on when its signature is the HMAC of
\* its body under the stored secret, and is rejected with 401 in every other case
\* (another secret, an altered body, a malformed or missing signature).
C14_AcceptsExactlySigned ==
  Verified => (response.statusCode = 401 <=> ~SignatureValid)

\* the signature header of the request is absent or lacks the sha256= prefix
SignatureMissingOrMalformed == signature \in {Undef, Str("sha1=0000")}

\* C15: a missing or malformed signature header, and any error raised while the
\* signature is computed or compared, counts as a failed verification and is
\* answered with 401, never with a 500 (nor with any other status).
C15_BadSignatureAnswered401 ==
  (Verified /\ SignatureMissingOrMalformed) =>
     /\ pc = "done"
     /\ response = [statusCode |-> 401, keys |-> {"message"}]

\* the part of C15 that holds: a missing signature header is answered with 401
C15_MissingSignatureAnswered401 ==
  (Verified /\ signature = Undef) =>
     /\ pc = "done"
     /\ response = [statusCode |-> 401, keys |-> {"message"}]

\* the common dimensions of a record and the payload field each one comes from
Dimensions ==
  { [name |-> "repository_id", top |-> "repository", sub |-> "id"],
    [name |-> "repository_name", top |-> "repository", sub |-> "name"],
    [name |-> "repository_full_name", top |-> "repository", sub |-> "full_name"],
    [name |-> "organization_id", top |-> "organization", sub |-> "id"],
    [name |-> "organization_login", top |-> "organization", sub |-> "login"],
    [name |-> "sender_id", top |-> "sender", sub |-> "id"],
    [name |-> "sender_login", top |-> "sender", sub |-> "login"],
    [name |-> "action", top |-> "action", sub |-> ""] }

\* the value the payload of the current invocation holds for dimension d
PayloadValue(d) ==
  IF d.sub = "" THEN Get(parsedBody, d.top) ELSE Get(Get(parsedBody, d.top), d.sub)

\* C16: in every record written to the bucket a common dimension (repository
\* id/name/full_name, organization id/login, sender id/login, action) appears
\* exactly when the payload holds the field, with the payload's value; an absent
\* field is left out of the record and never written as null.
C16_AbsentDimensionsOmitted ==
  \A i \in DOMAIN s3Objects : \A d \in Dimensions :
     /\ d.name \in DOMAIN s3Objects[i].Body <=> PayloadValue(d) # Undef
     /\ d.name \in DOMAIN s3Objects[i].Body => s3Objects[i].Body[d.name] = PayloadValue(d)
     /\ Get(parsedBody, d.top) = Undef => d.name \notin DOMAIN s3Objects[i].Body

\* C16 witness: the record of a push delivery, whose payload has a repository and a
\* sender but no organization and no action, was written without organization_id,
\* organization_login and action
C16_Witness ==
  /\ pc = "done"
  /\ Len(s3Objects) = 1
  /\ body = Str("push")
  /\ {"repository_id", "repository_name", "sender_login"} \subseteq DOMAIN s3Objects[1].Body
  /\ {"organization_id", "organization_login", "action"} \cap DOMAIN s3Objects[1].Body = {}

\* the current invocation is one of the custom-data handler
CustomPath == pc \in {"customIdle", "customStart", "customPut", "customDone"}

\* the wall-clock time of the current invocation
Now == Str(Timestamp(invocations))

\* the timestamp C17 asks of the records of the current invocation: the caller's
\* Time on the custom-data path when the request carries one, else the clock
ClaimedTimestamp ==
  IF CustomPath /\ HasKey(parsedBody, "Time") THEN Get(parsedBody, "Time") ELSE Now

\* C17: the timestamp of a written record is the wall-clock time at assembly and
\* never a value of the event payload, except on the custom-data path, where a
\* caller-supplied Time, when present, is the record's timestamp.
C17_RecordTimestamp ==
  \A i \in DOMAIN s3Objects :
     /\ "timestamp" \in DOMAIN s3Objects[i].Body
     /\ s3Objects[i].Body["timestamp"] = ClaimedTimestamp

\* no measure of the current custom-data request is itself called timestamp
NoMeasureNamedTimestamp ==
  /\ HasKey(parsedBody, "MeasureValue") => Get(parsedBody, "MeasureName") # Str("timestamp")
  /\ ~HasKey(parsedBody, "MeasureValue") =>
        \A j \in 1 .. Len(Get(parsedBody, "MeasureValues").a) :
           Get(Get(parsedBody, "MeasureValues").a[j], "Name") # Str("timestamp")

\* the part of C17 that holds on the custom-data path: the claimed timestamp is
\* written whenever no measure is named timestamp
C17_UnlessMeasureNamedTimestamp ==
  (CustomPath /\ s3Objects # <<>> /\ NoMeasureNamedTimestamp) => C17_RecordTimestamp

\* the pull request of the current payload
PullRequest == Get(parsedBody, "pull_request")

\* the returned measure holds the count named name (with or without the event
\* prefix) with the value "0"
ZeroCountEmitted(name) ==
  \E mv \in MeasureValues : mv.Name \in {name, "pr_" \o name} /\ mv.Value = Str("0")

\* C18: a payload field whose value is false or 0 is still emitted: a pull request
\* with commits = 0 yields the commits entry with value "0", one with
\* review_comments = 0 the review-comments entry with value "0".
C18_ZeroCountsEmitted ==
  PullRequestReturned =>
     /\ Get(PullRequest, "commits") = Num(0) => ZeroCountEmitted("pr_commits")
     /\ Get(PullRequest, "review_comments") = Num(0) => ZeroCountEmitted("pr_rv_comments")

\* the other half of C18 in the code: merged = false is emitted as "false", and a
\* non-zero count is emitted
C18_FalseAndNonZeroEmitted ==
  PullRequestReturned =>
     /\ Merged = Bool(FALSE) => ValuesOf("pr_pr_merged") = {Str("false")}
     /\ Get(PullRequest, "commits") = Num(3) => ValuesOf("pr_pr_commits") = {Str("3")}

\* getMeasure has returned a measure for an issues event
IssuesReturned == Returned /\ IsStr(githubEvent, "issues") /\ ~measure.thrown

\* the assignee of the event (payload.assignee) and the one of its issue
EventAssignee == Get(parsedBody, "assignee")
IssueAssignee == Get(Get(parsedBody, "issue"), "assignee")

\* the measure holds the login and the id of assignee under the given names
AssigneeEmitted(assignee, login, id) ==
  /\ ValuesOf(login) = {Get(assignee, "login")}
  /\ ValuesOf(id) = {Str(JSString(Get(assignee, "id")))}

\* C19: an optional field gives a measure entry when the payload carries it and no
\* entry when it does not: for pull_request and issues events the login and id of
\* the assignee are in the returned measure when the payload carries an assignee,
\* and are not when it carries none.
C19_AssigneeEmittedWhenPresent ==
  /\ PullRequestReturned =>
       IF Truthy(EventAssignee)
       THEN AssigneeEmitted(EventAssignee, "pr_assignee_login", "pr_assignee_id")
       ELSE {"pr_assignee_login", "pr_assignee_id"} \cap Names = {}
  /\ IssuesReturned =>
       /\ IF Truthy(EventAssignee)
          THEN AssigneeEmitted(EventAssignee, "issues_assignee_login", "issues_assignee_id")
          ELSE {"issues_assignee_login", "issues_assignee_id"} \cap Names = {}
       /\ IF Truthy(IssueAssignee)
          THEN AssigneeEmitted(IssueAssignee, "issues_issue_assignee_login",
                               "issues_issue_assignee_id")
          ELSE {"issues_issue_assignee_login", "issues_issue_assignee_id"} \cap Names = {}

\* the assignee entries that do follow the rule: payload.assignee of an issues event
C19_IssuesEventAssignee ==
  IssuesReturned =>
     IF Truthy(EventAssignee)
     THEN AssigneeEmitted(EventAssignee, "issues_assignee_login", "issues_assignee_id")
     ELSE {"issues_assignee_login", "issues_assignee_id"} \cap Names = {}

\* the pull_request half of C19 alone
C19_PullRequestEventAssignee ==
  PullRequestReturned =>
     (Truthy(EventAssignee)
        => AssigneeEmitted(EventAssignee, "pr_assignee_login", "pr_assignee_id"))

\* the issue.assignee part of C19 alone
C19_IssueAssignee ==
  IssuesReturned =>
     (Truthy(IssueAssignee)
        => AssigneeEmitted(IssueAssignee, "issues_issue_assignee_login",
                           "issues_issue_assignee_id"))

\* the entries of the returned measure, none for a Single measure
EmittedEntries ==
  IF ~measure.thrown /\ "measureValues" \in DOMAIN measure.measure THEN MeasureValues ELSE {}

\* C20: every entry typed BOOL/BOOLEAN that getMeasure emits has the value "true" or
\* "false", for every payload (also where the source field is missing or is not a
\* boolean).
C20_BooleanLiterals ==
  Returned =>
     \A mv \in EmittedEntries :
        mv.Type \in {"BOOL", "BOOLEAN"} => mv.Value \in {Str("true"), Str("false")}

\* what C20 comes to for payloads whose boolean fields are booleans: the entries of
\* merged, draft and a label's default are "true" or "false"
C20_BooleanSourcesSerialized ==
  Returned =>
     \A mv \in EmittedEntries :
        mv.Name \in {"pr_pr_merged", "issues_issue_draft", "issues_issue_labels_0_default"}
          => mv.Value \in {Str("true"), Str("false")}

\* the returned measure is a Single measure (one measureValue) / a Multi measure
IsSingle ==
  /\ "measureValue" \in DOMAIN measure.measure
  /\ "measureValues" \notin DOMAIN measure.measure
  /\ measure.measure.measureValueType # "MULTI"
IsMulti ==
  /\ "measureValues" \in DOMAIN measure.measure
  /\ "measureValue" \notin DOMAIN measure.measure
  /\ measure.measure.measureValueType = "MULTI"

\* C21: whatever getMeasure returns is a Multi measure for a known event type and a
\* Single measure on the fallback path only: the result is Single if and only if
\* the event type is not one of the known types (and is Multi otherwise).
C21_SingleIffUnknown ==
  (Returned /\ ~measure.thrown) =>
     /\ IsSingle <=> ~EventTypeKnown
     /\ IsMulti <=> EventTypeKnown

\* C21 witness: a Multi measure was returned for an issues event
C21_Witness ==
  /\ IssuesReturned
  /\ IsMulti
  /\ measure.measure.measureName = "issue"
  /\ Len(measure.measure.measureValues) > 1

\* the body of the current custom-data request parses as JSON into an object that
\* contains Dimensions, MeasureName, MeasureValueType and MeasureValue or MeasureValues
CustomBodyComplete ==
  /\ Truthy(body)
  /\ CustomParse(body.s).parses
  /\ CustomParse(body.s).json.t = "object"
  /\ \A k \in {"Dimensions", "MeasureName", "MeasureValueType"} :
        HasKey(CustomParse(body.s).json, k)
  /\ \E k \in {"MeasureValue", "MeasureValues"} : HasKey(CustomParse(body.s).json, k)

\* the current custom-data invocation has sent a PutObject command
CustomWriteAttempted == "write" \in Range(steps)

\* C22: the custom-data handler attempts a write, and stores a record, only for a
\* body that parses as JSON and contains Dimensions, MeasureName, MeasureValueType
\* and at least one of MeasureValue / MeasureValues; every other non-empty body is
\* answered 400 without any write being attempted.
C22_WriteOnlyForCompleteBody ==
  /\ (pc \in {"customPut", "customDone"} /\ (CustomWriteAttempted \/ s3Objects # <<>>
                                              \/ pc = "customPut"))
        => CustomBodyComplete
  /\ (pc = "customDone" /\ Truthy(body) /\ ~CustomBodyComplete)
        => /\ response.statusCode = 400
           /\ ~CustomWriteAttempted
           /\ s3Objects = <<>>

\* a complete body whose record has been stored
C22_Witness ==
  /\ pc = "customDone"
  /\ CustomBodyComplete
  /\ CustomWriteAttempted
  /\ Len(s3Objects) = 1
  /\ response.statusCode = 200

\* a body without MeasureValueType answered 400 with nothing written
C22_WitnessRejected ==
  /\ pc = "customDone"
  /\ Truthy(body)
  /\ CustomParse(body.s).parses
  /\ HasKey(CustomParse(body.s).json, "Dimensions")
  /\ ~HasKey(CustomParse(body.s).json, "MeasureValueType")
  /\ response.statusCode = 400
  /\ ~CustomWriteAttempted

\* C30: in a custom-data record written to the sink the fields timestamp,
\* dimensions, measure_name and measure_value_type hold the request's time,
\* Dimensions, MeasureName and MeasureValueType, whatever MeasureName or
\* MeasureValues[].Name the caller sends.
C30_FieldsPreserved ==
  CustomPath =>
    \A i \in DOMAIN s3Objects :
       LET record == s3Objects[i].Body
       IN  /\ {"timestamp", "dimensions", "measure_name", "measure_value_type"}
                 \subseteq DOMAIN record
           /\ record["timestamp"] = ClaimedTimestamp
           /\ record["dimensions"] = Get(parsedBody, "Dimensions")
           /\ record["measure_name"] = Get(parsedBody, "MeasureName")
           /\ record["measure_value_type"] = Get(parsedBody, "MeasureValueType")

\* the names under which the current custom-data request sends its measure value(s)
CustomMeasureKeys ==
  IF HasKey(parsedBody, "MeasureValue")
  THEN {JSString(Get(parsedBody, "MeasureName"))}
  ELSE {JSString(Get(Get(parsedBody, "MeasureValues").a[j], "Name")) :
          j \in 1 .. Len(Get(parsedBody, "MeasureValues").a)}

\* what holds of C30: the four fields are the request's whenever no measure is
\* named like one of them
C30_UnlessMeasureNamedLikeField ==
  (CustomPath /\ s3Objects # <<>>
   /\ CustomMeasureKeys \cap {"timestamp", "dimensions", "measure_name", "measure_value_type"} = {})
     => C30_FieldsPreserved

\* the statuses of the return statements of the webhook handler
WebhookStatuses == {200, 400, 401, 403, 500}

\* the webhook handler has answered exactly when the invocation is over, with one
\* of its statuses
AnsweredWhenOver ==
  /\ pc = "done" => response.statusCode \in WebhookStatuses
  /\ pc # "done" => response = NoResponse

\* how far the handler has come: the position of pc in the order of its statements
Position(p) ==
  CASE p = "idle" -> 0 [] p = "start" -> 1 [] p = "getSecret" -> 2 [] p = "verify" -> 3
    [] p = "publish" -> 4 [] p = "send" -> 5 [] p = "put" -> 6 [] OTHER -> 7

\* C23: every invocation of the webhook handler terminates with exactly one
\* response whose status is one of 200, 400, 401, 403 or 500; an exception of the
\* secret fetch, verification, parsing, SNS publish, extraction or the sink write
\* is answered and does not escape. Termination: the handler is always at one of
\* its statements, every step moves it forward, and only the answer ends it.
C23_AlwaysOneResponse ==
  /\ []AnsweredWhenOver
  /\ [](pc \in {"idle", "start", "getSecret", "verify", "publish", "send", "put", "done"})
  /\ [][/\ response # NoResponse => response' = NoResponse
        /\ pc # "done" => Position(pc') > Position(pc)
        /\ pc = "done" => pc' = "idle"]_vars

\* an invocation answered 500 after getMeasure raised
C23_Witness ==
  /\ pc = "done"
  /\ measure.thrown
  /\ Range(steps) = {"getSecret", "verify", "parse", "extract"}
  /\ response.statusCode = 500

\* the webhook handler is past its parse with a parsed body
BodyParsed == "parse" \in Range(steps) /\ JSONParse(body.s).parses

\* the payload of the current invocation carries number, action, organization.login
\* and repository.name
PayloadCarriesPullRequestKeys == PublishGuard(parsedBody) = "publish"

\* C24: an SNS message is published only for a request whose event type is
\* pull_request, whose signature was verified, whose body parsed and whose payload
\* carries number, action, organization.login and repository.name; at most one
\* message is published per invocation.
C24_PublishOnlyVerifiedPullRequest ==
  /\ Len(snsPublished) <= 1
  /\ snsPublished # <<>> =>
        /\ IsStr(githubEvent, "pull_request")
        /\ Verified /\ SignatureValid
        /\ BodyParsed
        /\ PayloadCarriesPullRequestKeys

\* what holds of C24: the same with "verified" read as "webhooks.verify was called
\* and did not raise"; the message is the one built from the payload
C24_ExceptVerification ==
  /\ Len(snsPublished) <= 1
  /\ snsPublished # <<>> =>
        /\ IsStr(githubEvent, "pull_request")
        /\ Verified /\ verify(SecretToken, body.s, signature) # "throws"
        /\ BodyParsed
        /\ PayloadCarriesPullRequestKeys
        /\ snsPublished[1] = snsMessage(githubDelivery, parsedBody)

\* the last call of the current consolidation run
LastStep == steps[Len(steps)]

\* the current consolidation run has ended with the rethrown error of the call name
FailedAt(name) ==
  /\ pc = "consDone"
  /\ response = Rethrown
  /\ steps # <<>>
  /\ LastStep.step = name

\* the raw objects of the prefix the current run has deleted
DeletedOf(prefix) == {d \in deletedObjects : d.Key.prefix = prefix}

\* C25: the raw objects of a (prefix, date) are deleted only after the consolidated
\* object of that prefix and date was written successfully; when the listing, a
\* read or the consolidated write of a prefix fails, no raw object of that prefix
\* is deleted.
C25_DeleteOnlyAfterConsolidatedWrite ==
  /\ \A d \in deletedObjects :
        /\ d.Key.day = dateToConsolidate
        /\ consolidatedKey(d.Key.prefix, d.Key.day) \in putObjects
        /\ consolidatedKey(d.Key.prefix, d.Key.day) \in DOMAIN consolidatedBucket
        /\ \E i, j \in DOMAIN steps :
              /\ i < j
              /\ steps[i] = [step |-> "put", prefix |-> steps[j].prefix, ok |-> TRUE]
              /\ steps[j].step = "delete"
              /\ allPrefixes[steps[j].prefix] = d.Key.prefix
  /\ \A name \in {"list", "read", "put"} :
        FailedAt(name) => DeletedOf(allPrefixes[LastStep.prefix]) = {}

\* a run whose consolidated write of custom_data failed after the push objects
\* were consolidated and deleted
C25_Witness ==
  /\ FailedAt("put")
  /\ allPrefixes[LastStep.prefix] = "custom_data"
  /\ DeletedOf("event_type=push") # {}
  /\ \E k \in DOMAIN rawBucket : k.prefix = "custom_data" /\ k.day = dateToConsolidate

\* C26: consolidation loses no data: every raw object a run deletes has its record
\* in the consolidated object the same run wrote, empty and unparseable raw
\* objects included, whatever raw objects are written meanwhile.
C26_DeletedAreConsolidated ==
  \A d \in deletedObjects :
     LET key == consolidatedKey(d.Key.prefix, d.Key.day)
     IN  /\ key \in putObjects
         /\ d.Body \in Range(consolidatedBucket[key])

\* what holds of C26: every deleted raw object that parses as JSON has its record
\* in the consolidated object of the run
C26_ParseableDeletedAreConsolidated ==
  \A d \in deletedObjects :
     ConsolidationParse(d.Body).parses =>
        LET key == consolidatedKey(d.Key.prefix, d.Key.day)
        IN  /\ key \in putObjects
            /\ d.Body \in Range(consolidatedBucket[key])

\* C27: re-running the consolidation for the same date never removes records from
\* the consolidated bucket.
C27_RerunKeepsRecords ==
  [][\A k \in DOMAIN consolidatedBucket :
        /\ k \in DOMAIN consolidatedBucket'
        /\ Range(consolidatedBucket[k]) \subseteq Range(consolidatedBucket'[k])]_vars

\* what holds of C27: no consolidated object is ever deleted, and a run that finds
\* no raw object with a record leaves the consolidated bucket as it is
C27_ObjectsStay ==
  [][/\ DOMAIN consolidatedBucket \subseteq DOMAIN consolidatedBucket'
     /\ consolidatedBucket' # consolidatedBucket =>
           pc = "consPut" /\ consolidatedData # <<>>]_vars

\* C28: the Glue catalog is updated only after every prefix was consolidated
\* without error; when a prefix fails the handler throws, the catalog is not
\* updated, and the prefixes consolidated before stay consolidated with their raw
\* objects deleted.
C28_CatalogAfterAllPrefixes ==
  /\ [][glueCatalog' # glueCatalog =>
          /\ pc = "consGlue"
          /\ \A j \in DOMAIN steps : steps[j].ok
          /\ \A p \in DOMAIN allPrefixes :
                \E j \in DOMAIN steps : steps[j] = [step |-> "list", prefix |-> p, ok |-> TRUE]]_vars
  /\ [](pc = "consDone" =>
          /\ response = Rethrown <=> \E j \in DOMAIN steps : ~steps[j].ok
          /\ response = ConsolidationCompleted <=> \A j \in DOMAIN steps : steps[j].ok
          /\ (\E j \in DOMAIN steps : ~steps[j].ok /\ steps[j].step # "glue") =>
                \A j \in DOMAIN steps : steps[j].step # "glue"
          /\ putObjects \subseteq DOMAIN consolidatedBucket
          /\ \A d \in deletedObjects : d.Key \notin DOMAIN rawBucket
          /\ \A j \in DOMAIN steps :
                steps[j].step = "delete" /\ steps[j].ok =>
                  /\ consolidatedKey(allPrefixes[steps[j].prefix], dateToConsolidate)
                        \in DOMAIN consolidatedBucket
                  /\ ~\E k \in DOMAIN rawBucket :
                        /\ k.prefix = allPrefixes[steps[j].prefix]
                        /\ k.day = dateToConsolidate
                        /\ k.name \in {d.Key.name : d \in deletedObjects})

\* a run that failed at the listing of custom_data: the push objects are
\* consolidated and deleted, the catalog has no partition
C28_Witness ==
  /\ FailedAt("list")
  /\ allPrefixes[LastStep.prefix] = "custom_data"
  /\ consolidatedKey("event_type=push", dateToConsolidate) \in DOMAIN consolidatedBucket
  /\ DeletedOf("event_type=push") # {}
  /\ glueCatalog.partitions = {}

\* the SNS records of the current batch: the positions of the records that carry Sns
SnsRecordsOfBatch == {k \in DOMAIN Records : Truthy(Get(Records[k], "Sns"))}

\* the statistics of record k have been written: an object of its delivery holds
\* the numbers GitHub returned for its pull request
StatisticsWritten(k) ==
  LET message == SnsParse(Get(Get(Records[k], "Sns"), "Message").s)
  IN  /\ message.parses
      /\ \E i \in DOMAIN s3Objects :
            /\ s3Objects[i].Body["delivery_id"] = Get(message.json, "deliveryId")
            /\ s3Objects[i].Body["pull_number"] = Get(message.json, "number")
            /\ s3Objects[i].Body["pr_changed_files"]
                 = Get(PullRequestData(Get(message.json, "number")), "changed_files")
            /\ s3Objects[i].Body["pr_additions"]
                 = Get(PullRequestData(Get(message.json, "number")), "additions")
            /\ s3Objects[i].Body["pr_deletions"]
                 = Get(PullRequestData(Get(message.json, "number")), "deletions")

\* the record at which the current invocation failed
SnsFailedAt(k) ==
  /\ pc = "snsDone"
  /\ steps # <<>>
  /\ ~steps[Len(steps)].ok
  /\ steps[Len(steps)].record = k
  /\ k \in DOMAIN Records

\* C29: the SNS handler answers 200 only if every SNS record of the batch was
\* processed and its pull-request statistics written; when processing record k
\* fails it answers 500, the records after k are not processed, and the writes
\* made for the records before k remain.
C29_AllOrErrorWithEarlierWrites ==
  /\ (pc = "snsDone" /\ response.statusCode = 200) =>
        /\ \A j \in DOMAIN steps : steps[j].ok
        /\ recordIndex = Len(Records) + 1
        /\ \A k \in SnsRecordsOfBatch : StatisticsWritten(k)
        /\ Len(s3Objects) = Cardinality(SnsRecordsOfBatch)
  /\ pc = "snsDone" =>
        /\ response.statusCode \in {200, 500}
        /\ response.statusCode = 500 <=> \E j \in DOMAIN steps : ~steps[j].ok
  /\ \A k \in DOMAIN Records :
        SnsFailedAt(k) =>
          /\ response.statusCode = 500
          /\ \A j \in DOMAIN steps : steps[j].record <= k
          /\ \A j \in SnsRecordsOfBatch : j < k => StatisticsWritten(j)
          /\ Len(s3Objects) = Cardinality({j \in SnsRecordsOfBatch : j < k})

\* a batch of three SNS records whose second failed at GitHub: the first is
\* written, the third untouched
C29_Witness ==
  /\ Len(Records) = 3
  /\ SnsRecordsOfBatch = {1, 2, 3}
  /\ SnsFailedAt(2)
  /\ steps[Len(steps)].step = "get"
  /\ StatisticsWritten(1)
  /\ Len(s3Objects) = 1
  /\ response.statusCode = 500
====
